---------------------------- MODULE Spec2Model ----------------------------
(***************************************************************************)
(* A model of the lizards compressor (LZ77-style matches plus Huffman      *)
(* coded literal chunks): src/src/huffman.rs, offset_len.rs, header.rs,    *)
(* output_stream.rs, helpers.rs, encode.rs and decode.rs.                  *)
(*                                                                         *)
(* Conventions.                                                            *)
(*   - Option<T>: None is <<>>, Some(x) is <<x>>.                           *)
(*   - u8 is an integer 0..255.                                            *)
(*   - u64 is a tuple of 64 bits, most significant bit first (index 1 is   *)
(*     bit 63): TLC's integers are 32 bits wide, the program's are not.    *)
(*   - a panic is recorded in the variable panic as the name of the        *)
(*     source line that raises it; a panicked run takes no further step.   *)
(***************************************************************************)
EXTENDS Integers, Sequences, FiniteSets, TLC

VARIABLES
    pc,               \* position of the running program (see the actions)
    overflow_checks,  \* TRUE: debug build (overflow panics); FALSE: release (wraps)
    panic,            \* "" or the source line of the panic that ended the run
    files,            \* [unencoded, encoded, decoded]: the three files
    enc,              \* encode(): reader position, byte_stats, read/lookback buffers
    os,               \* OutputStream: buf, code_map, plus the tree of its header
    dec,              \* decode(): its locals
    script,           \* the EncodedValues a direct user of OutputStream adds
    trace,            \* history: values passed to OutputStream::add, flushed runs
    fn                \* pure-function harness: [arg, mid, ret]

vars == <<pc, overflow_checks, panic, files, enc, os, dec, script, trace, fn>>

---------------------------------------------------------------------------
(* Option and small helpers *)

None == <<>>

Some(x) == <<x>>

IsSome(o) == o # <<>>

Unwrap(o) == o[1]

Range(f) == {f[x] : x \in DOMAIN f}

Min(a, b) == IF a <= b THEN a ELSE b

\* TLC evaluates [i \in S |-> e] lazily; Tup makes it the tuple it denotes.
Tup(f) == f \o <<>>

\* A loop "for i in lo..=hi { st = Op(st, i) }", evaluated by halving the
\* range so that the evaluation stays shallow; the test left = left makes
\* TLC compute the first half before it starts the second.
RECURSIVE FoldRange(_, _, _, _)
FoldRange(Op(_, _), st, lo, hi) ==
    IF lo > hi THEN st
    ELSE IF lo = hi THEN Op(st, lo)
    ELSE LET mid == (lo + hi) \div 2
             left == FoldRange(Op, st, lo, mid)
         IN IF left = left THEN FoldRange(Op, left, mid + 1, hi) ELSE st

\* s repeated n times (s not empty)
Repeat(s, n) == Tup([i \in 1..(n * Len(s)) |-> s[((i - 1) % Len(s)) + 1]])

\* the concatenation of the sequences of ss
Flatten(ss) ==
    LET Step(acc, i) == acc \o ss[i]
    IN FoldRange(Step, <<>>, 1, Len(ss))

Byte == 0..255

---------------------------------------------------------------------------
(* u64 arithmetic on 64-bit tuples, most significant bit first *)

Zero64 == Tup([i \in 1..64 |-> 0])

\* x << k for 0 <= k <= 63 (bits shifted out are lost)
Shl(x, k) == Tup([i \in 1..64 |-> IF i + k <= 64 THEN x[i + k] ELSE 0])

\* x >> k for 0 <= k <= 63
Shr(x, k) == Tup([i \in 1..64 |-> IF i - k >= 1 THEN x[i - k] ELSE 0])

BitOr(x, y) == Tup([i \in 1..64 |-> IF x[i] = 1 \/ y[i] = 1 THEN 1 ELSE 0])

ByteOfBits(b) ==
    b[1] * 128 + b[2] * 64 + b[3] * 32 + b[4] * 16 + b[5] * 8 + b[6] * 4 + b[7] * 2 + b[8]

BitsOfByte(v) == Tup([i \in 1..8 |-> (v \div (2 ^ (8 - i))) % 2])

\* v as u64, for a u8 v
U64FromU8(v) == Tup([i \in 1..64 |-> IF i >= 57 THEN (v \div (2 ^ (64 - i))) % 2 ELSE 0])

\* n as u64, for 0 <= n < 2^31
U64FromNat(n) == Tup([i \in 1..64 |-> IF i >= 34 THEN (n \div (2 ^ (64 - i))) % 2 ELSE 0])

\* x as u8 (truncating cast)
AsU8(x) == ByteOfBits(SubSeq(x, 57, 64))

\* u64::to_be_bytes
to_be_bytes(x) == Tup([k \in 1..8 |-> ByteOfBits(SubSeq(x, 8 * k - 7, 8 * k))])

\* u64::from_be_bytes
from_be_bytes(bs) == Tup([i \in 1..64 |-> BitsOfByte(bs[((i - 1) \div 8) + 1])[((i - 1) % 8) + 1]])

U64Less(x, y) == \E i \in 1..64 : x[i] < y[i] /\ \A j \in 1..(i - 1) : x[j] = y[j]

U64Leq(x, y) == x = y \/ U64Less(x, y)

\* The value of x when it is below 2^31, and 2^31 - 1 (a value no buffer
\* length of the model reaches) when it is not.
U64ToNat(x) ==
    LET RECURSIVE val(_)
        val(i) == IF i > 64 THEN 0 ELSE x[i] * (2 ^ (64 - i)) + val(i + 1)
    IN IF \E i \in 1..34 : x[i] = 1 THEN 2147483647 ELSE val(35)

\* carry into bit position i (1 = most significant) of x + y: some lower
\* position generates a carry and every position between propagates it
CarryInto(x, y, i) ==
    IF \E j \in (i + 1)..64 :
           /\ x[j] = 1 /\ y[j] = 1
           /\ \A k \in (i + 1)..(j - 1) : x[k] + y[k] = 1
    THEN 1 ELSE 0

\* the carry out of the most significant bit: x + y >= 2^64
AddOverflows(x, y) == x[1] + y[1] + CarryInto(x, y, 1) >= 2

\* x + y modulo 2^64 (wrapping_add)
WrappingAdd(x, y) == Tup([i \in 1..64 |-> (x[i] + y[i] + CarryInto(x, y, i)) % 2])

---------------------------------------------------------------------------
(* huffman.rs *)

\* Node::new_leaf
new_leaf(v) == [value |-> Some(v), left |-> None, right |-> None, is_end_node |-> FALSE]

\* Node::new_vertex
new_vertex(left, right) == [value |-> None, left |-> left, right |-> right, is_end_node |-> FALSE]

\* Node::new_end
new_end == [value |-> None, left |-> None, right |-> None, is_end_node |-> TRUE]

\* ByteStats: a function from the bytes seen to their counts
EmptyStats == [b \in {} |-> 0]

\* DoublePriorityQueue<Node, usize> as a set of entries; pop_min takes some
\* entry of least priority (which one, among equals, depends on the order of
\* insertion, which is HashMap's iteration order: not determined).
MinEntries(q) == {e \in q : \A o \in q : e.count <= o.count}

\* The loop "pick off two lowest, and combine" and the final pop: the set of
\* root nodes it can end with.
RECURSIVE CombineLowest(_)
CombineLowest(q) ==
    IF Cardinality(q) <= 1
    THEN {e.node : e \in q}
    ELSE UNION { UNION { CombineLowest(((q \ {e0}) \ {e1}) \cup
                            {[node |-> new_vertex(Some(e0.node), Some(e1.node)),
                              count |-> e0.count + e1.count]})
                         : e1 \in MinEntries(q \ {e0}) }
                 : e0 \in MinEntries(q) }

\* A faulty block: the queue as it is, with no end node
AddNoEndNode(q) == {q}

\* A faulty block: the end node is paired with an entry of the highest
\* count
AddEndNodeToHighest(q) ==
    { (q \ {e}) \cup {[node |-> new_vertex(Some(e.node), Some(new_end)), count |-> e.count]}
      : e \in {m \in q : \A o \in q : m.count >= o.count} }

\* The block "add end_node as lowest frequency pair" applied to the queue
\* of leaves.
AddEndNode(q) ==
    { (q \ {e}) \cup {[node |-> new_vertex(Some(e.node), Some(new_end)), count |-> e.count]}
      : e \in MinEntries(q) }

\* A faulty build_tree: for an empty table the tree of the end node alone
build_tree_of_end_alone(stats) ==
    LET leaves == {[node |-> new_leaf(v), count |-> stats[v]] : v \in DOMAIN stats}
    IN IF leaves = {}
       THEN {[root_node |-> Some(new_end)]}
       ELSE {[root_node |-> Some(root)] : root \in UNION {CombineLowest(q) : q \in AddEndNode(leaves)}}

\* build_tree: the set of trees it can return; empty when it panics
\* (pop_min().unwrap() on the empty queue of an empty table).
build_tree(stats) ==
    LET leaves == {[node |-> new_leaf(v), count |-> stats[v]] : v \in DOMAIN stats}
    IN IF leaves = {}
       THEN {}
       ELSE {[root_node |-> Some(root)] : root \in UNION {CombineLowest(q) : q \in AddEndNode(leaves)}}

\* Bits::default
BitsDefault == [set_bits |-> Zero64, bit_size |-> 0]

\* Bits::clone_with_increase
clone_with_increase(bits, is_left) ==
    LET one_or_zero == IF is_left THEN 0 ELSE 1
        new_set_bits == Tup([Shl(bits.set_bits, 1) EXCEPT ![64] = one_or_zero])
    IN [set_bits |-> new_set_bits, bit_size |-> bits.bit_size + 1]

\* From<(u8, usize)> for Bits
BitsFrom(bits, bit_size) == [set_bits |-> U64FromU8(bits), bit_size |-> bit_size]

\* The most nodes a tree of build_tree has: a leaf for each byte value,
\* the end node, and a vertex for each leaf but one
MaxTreeNodes == 2 * (256 + 1) - 1

\* One call of tree_to_code_map's rec: st is [calls, pairs], calls the
\* calls still to make, each <<bits, node>>, the next one first, and
\* pairs the insertions made so far.  The call at the head inserts for a
\* node with a value or the end node; for another node the call for its
\* left child, then the one for its right child, come before the rest.
CodeMapCall(st, i) ==
    IF st.calls = <<>> THEN st
    ELSE LET bits == Head(st.calls)[1]
             node == Head(st.calls)[2]
         IN IF IsSome(node.value)
            THEN [calls |-> Tail(st.calls),
                  pairs |-> Append(st.pairs, <<FALSE, Unwrap(node.value), bits>>)]
            ELSE IF node.is_end_node
            THEN [calls |-> Tail(st.calls), pairs |-> Append(st.pairs, <<TRUE, 0, bits>>)]
            ELSE [calls |-> (IF IsSome(node.left)
                             THEN << <<clone_with_increase(bits, TRUE), Unwrap(node.left)>> >>
                             ELSE <<>>)
                            \o (IF IsSome(node.right)
                                THEN << <<clone_with_increase(bits, FALSE), Unwrap(node.right)>> >>
                                ELSE <<>>)
                            \o Tail(st.calls),
                  pairs |-> st.pairs]

\* tree_to_code_map's rec: the insertions it makes, in order, each
\* <<is_end, byte, Bits>> (is_end: the insertion into end_code).  The
\* recursion is run as a list of calls, which keeps the evaluation
\* shallow on a deep tree.
CodeMapRec(bits, node) ==
    FoldRange(CodeMapCall, [calls |-> << <<bits, node>> >>, pairs |-> <<>>], 1, MaxTreeNodes).pairs

\* The Bits of the last insertion among those at the indices idx
\* (HashMap::insert and Option::insert both overwrite).
LastOf(pairs, idx) == pairs[CHOOSE i \in idx : \A j \in idx : j <= i][3]

\* tree_to_code_map; end_code is an Option here, the source unwraps it
tree_to_code_map(tree) ==
    LET pairs == CodeMapRec(BitsDefault, Unwrap(tree.root_node))
        ends == {i \in 1..Len(pairs) : pairs[i][1]}
        keys == {pairs[i][2] : i \in (1..Len(pairs)) \ ends}
    IN [codes |-> [v \in keys |->
                      LastOf(pairs, {i \in (1..Len(pairs)) \ ends : pairs[i][2] = v})],
        end_code |-> IF ends # {} THEN Some(LastOf(pairs, ends)) ELSE None]

\* CodeMap::new
CodeMapNew(codes, end_code) == [codes |-> codes, end_code |-> Some(end_code)]

\* A faulty iteration of pack_to_u8's loop: of a code that does not fit
\* in the bits left, the bits beyond them are not kept
PackStepDroppingRest(st, value_bits) ==
    LET split == value_bits.bit_size > st.bits_left
        num_bits_on_new == value_bits.bit_size - st.bits_left
        a == IF split
             THEN [output |-> st.output \o
                       to_be_bytes(BitOr(st.working_bytes, Shr(value_bits.set_bits, num_bits_on_new))),
                   working_bytes |-> Zero64,
                   bits_left |-> 64 - num_bits_on_new]
             ELSE [output |-> st.output,
                   working_bytes |-> BitOr(st.working_bytes,
                                           Shl(value_bits.set_bits, st.bits_left - value_bits.bit_size)),
                   bits_left |-> st.bits_left - value_bits.bit_size]
    IN IF a.bits_left = 0
       THEN [output |-> a.output \o to_be_bytes(a.working_bytes),
             working_bytes |-> Zero64, bits_left |-> 64]
       ELSE a

\* One iteration of pack_to_u8's loop over the input: st is
\* [output, working_bytes, bits_left].
PackStep(st, value_bits) ==
    LET split == value_bits.bit_size > st.bits_left
        num_bits_on_new == value_bits.bit_size - st.bits_left
        a == IF split
             THEN [output |-> st.output \o
                       to_be_bytes(BitOr(st.working_bytes, Shr(value_bits.set_bits, num_bits_on_new))),
                   working_bytes |-> Shl(value_bits.set_bits, 64 - num_bits_on_new),
                   bits_left |-> 64 - num_bits_on_new]
             ELSE [output |-> st.output,
                   working_bytes |-> BitOr(st.working_bytes,
                                           Shl(value_bits.set_bits, st.bits_left - value_bits.bit_size)),
                   bits_left |-> st.bits_left - value_bits.bit_size]
    IN IF a.bits_left = 0
       THEN [output |-> a.output \o to_be_bytes(a.working_bytes),
             working_bytes |-> Zero64, bits_left |-> 64]
       ELSE a

\* pack_to_u8's loop "for v in input_stream"
PackLoop(code_map, input_stream, st0) ==
    LET Step(st, i) == PackStep(st, code_map.codes[input_stream[i]])
    IN FoldRange(Step, st0, 1, Len(input_stream))

\* A faulty end of pack_to_u8: all eight bytes of the accumulator are put
\* out
PackEndWholeWord(code_map, st) ==
    LET end_code == Unwrap(code_map.end_code)
        fits == st.bits_left >= end_code.bit_size
        bits_left == IF fits THEN st.bits_left - end_code.bit_size ELSE st.bits_left
        working_bytes == IF fits
                         THEN BitOr(st.working_bytes, Shl(end_code.set_bits, bits_left))
                         ELSE st.working_bytes
    IN st.output \o to_be_bytes(working_bytes)

\* The end of pack_to_u8: "put as many bits of END_NODE's code on the end"
\* and "stuff what remains in working_bytes into output".
PackEnd(code_map, st) ==
    LET end_code == Unwrap(code_map.end_code)
        fits == st.bits_left >= end_code.bit_size
        bits_left == IF fits THEN st.bits_left - end_code.bit_size ELSE st.bits_left
        working_bytes == IF fits
                         THEN BitOr(st.working_bytes, Shl(end_code.set_bits, bits_left))
                         ELSE st.working_bytes
        floor == (64 - bits_left) \div 8
        bytes_populated == IF (64 - bits_left) % 8 # 0 THEN floor + 1 ELSE floor
    IN st.output \o SubSeq(to_be_bytes(working_bytes), 1, bytes_populated)

\* Whether pack_to_u8 panics: a byte without a code (codes.get(&v).unwrap())
PackPanics(code_map, input_stream) ==
    \E i \in 1..Len(input_stream) : input_stream[i] \notin DOMAIN code_map.codes

\* pack_to_u8
pack_to_u8(code_map, input_stream) ==
    PackEnd(code_map,
            PackLoop(code_map, input_stream,
                     [output |-> <<>>, working_bytes |-> Zero64, bits_left |-> 64]))

\* BitStream: the bits of the bytes, most significant bit of each byte first
\* (next() masks with 1 << (8 - byte_pos), byte_pos running 1..8)
BitStream(input_bytes) ==
    Tup([i \in 1..(8 * Len(input_bytes)) |->
            BitsOfByte(input_bytes[((i - 1) \div 8) + 1])[((i - 1) % 8) + 1]])

\* A faulty iteration of unpack_bytes' loop: at the end node the walk
\* starts again from the root and goes on
UnpackStepPastEnd(root_node, st, move_right) ==
    IF st.stopped \/ st.panic
    THEN st
    ELSE LET child == IF move_right THEN st.current_node.right ELSE st.current_node.left
         IN IF ~IsSome(child)
            THEN [st EXCEPT !.panic = TRUE]
            ELSE LET n == Unwrap(child)
                 IN IF IsSome(n.value)
                    THEN [st EXCEPT !.current_node = root_node,
                                    !.output = Append(st.output, Unwrap(n.value))]
                    ELSE IF n.is_end_node
                    THEN [st EXCEPT !.current_node = root_node]
                    ELSE [st EXCEPT !.current_node = n]

\* One iteration of unpack_bytes' loop "for move_right in bit_stream"; st
\* is [current_node, output, stopped, panic]: stopped after the break at
\* the end node, panic when a child is missing (unwrap on None).
UnpackStep(root_node, st, move_right) ==
    IF st.stopped \/ st.panic
    THEN st
    ELSE LET child == IF move_right THEN st.current_node.right ELSE st.current_node.left
         IN IF ~IsSome(child)
            THEN [st EXCEPT !.panic = TRUE]
            ELSE LET n == Unwrap(child)
                 IN IF IsSome(n.value)
                    THEN [st EXCEPT !.current_node = root_node,
                                    !.output = Append(st.output, Unwrap(n.value))]
                    ELSE IF n.is_end_node
                    THEN [st EXCEPT !.current_node = n, !.stopped = TRUE]
                    ELSE [st EXCEPT !.current_node = n]

UnpackResult(input_bytes, tree) ==
    LET bits == BitStream(input_bytes)
        root_node == Unwrap(tree.root_node)
        Step(st, i) == UnpackStep(root_node, st, bits[i] = 1)
    IN FoldRange(Step,
                 [current_node |-> root_node, output |-> <<>>, stopped |-> FALSE, panic |-> FALSE],
                 1, Len(bits))

\* unpack_bytes
unpack_bytes(input_bytes, tree) == UnpackResult(input_bytes, tree).output

\* HuffmanTree::size
RECURSIVE SizeWalk(_, _)
SizeWalk(node, count) ==
    LET c1 == IF IsSome(node.left) THEN SizeWalk(Unwrap(node.left), count + 1) ELSE count
    IN IF IsSome(node.right) THEN SizeWalk(Unwrap(node.right), c1 + 1) ELSE c1

size(tree) == SizeWalk(Unwrap(tree.root_node), 1)

---------------------------------------------------------------------------
(* offset_len.rs *)

\* OffsetLen::new_with_match
new_with_match(offset, len, matched_bytes) ==
    [offset |-> offset, len |-> len, matched_bytes |-> matched_bytes]

\* OffsetLen::new
OffsetLenNew(offset, len) == new_with_match(offset, len, None)

\* OffsetLen::SIZES: 2^8 - 1, 2^16 - 1, ..., 2^56 - 1, u64::MAX
SIZES == [k \in 1..8 |-> Tup([i \in 1..64 |-> IF i > 64 - 8 * k THEN 1 ELSE 0])]

\* A faulty find_num_bytes: the widest width, whatever the value
find_num_bytes_widest(v) == 8

\* OffsetLen::find_num_bytes: i + 1 for the first index i with v <= SIZES[i];
\* 0 stands for the panic after the loop
find_num_bytes(v) ==
    LET fits == {k \in 1..8 : U64Leq(v, SIZES[k])}
    IN IF fits = {} THEN 0 ELSE CHOOSE k \in fits : \A j \in fits : k <= j

\* A faulty take_bytes: the low byte, num_bytes times
take_bytes_low(value, num_bytes) == Tup([i \in 1..num_bytes |-> AsU8(value)])

\* OffsetLen::take_bytes: the num_bytes low bytes, the lowest first
take_bytes(value, num_bytes) == Tup([i \in 1..num_bytes |-> AsU8(Shr(value, (i - 1) * 8))])

\* OffsetLen::value_of_bytes (at most 8 bytes)
value_of_bytes(bytes) ==
    LET Step(result, i) == BitOr(result, Shl(U64FromU8(bytes[i]), (i - 1) * 8))
    IN FoldRange(Step, Zero64, 1, Len(bytes))

\* OffsetLen::to_bytes_new
to_bytes_new(self) ==
    LET num_bytes_for_offset == find_num_bytes(self.offset)
        num_bytes_for_len == find_num_bytes(self.len)
        offset_bytes == num_bytes_for_offset - 1
        len_bytes == num_bytes_for_len - 1
        num_byte == 128 + (offset_bytes * 8) + len_bytes
    IN <<num_byte>> \o take_bytes(self.offset, num_bytes_for_offset)
                    \o take_bytes(self.len, num_bytes_for_len)

\* OffsetLen::read_header_byte
read_header_byte(header_byte) == <<((header_byte \div 8) % 8) + 1, (header_byte % 8) + 1>>

\* Whether OffsetLen::of_bytes_new panics: no first byte, or a byte count
\* other than the one the first byte announces
of_bytes_new_panics(bytes) ==
    \/ Len(bytes) = 0
    \/ Len(bytes) # 1 + read_header_byte(bytes[1])[1] + read_header_byte(bytes[1])[2]

\* OffsetLen::of_bytes_new
of_bytes_new(bytes) ==
    LET num_bytes_for_offset == read_header_byte(bytes[1])[1]
        offset_bytes == SubSeq(bytes, 2, 1 + num_bytes_for_offset)
        len_bytes == SubSeq(bytes, 2 + num_bytes_for_offset, Len(bytes))
    IN [offset |-> value_of_bytes(offset_bytes),
        len |-> value_of_bytes(len_bytes),
        matched_bytes |-> None]

\* Whether the addition of OffsetLen::range_end overflows 64 bits
range_end_overflows(self) == AddOverflows(self.offset, self.len)

\* OffsetLen::range_end in a build that wraps (usize is 64 bits wide)
range_end(self) == WrappingAdd(self.offset, self.len)

---------------------------------------------------------------------------
(* header.rs; rmp_serde's encoding of the tree *)

\* Header::new
HeaderNew(huffman_tree, lookback_buffer_len) ==
    [huffman_tree |-> huffman_tree, lookback_buffer_len |-> lookback_buffer_len]

\* rmp_serde::to_vec writes a struct as a MessagePack array of its fields
\* (0x90 + field count), None as nil (0xc0), a u8 below 128 as itself and
\* any other as 0xcc followed by it, a bool as 0xc2 or 0xc3.  (The header
\* test's 64 bytes for its 13-node tree are those of this encoding.)

\* A faulty Option<u8>: the byte as it is, whatever its value
SerOptU8Bare(o) == IF ~IsSome(o) THEN <<192>> ELSE <<Unwrap(o)>>

\* Option<u8>
SerOptU8(o) ==
    IF ~IsSome(o) THEN <<192>>
    ELSE IF Unwrap(o) < 128 THEN <<Unwrap(o)>> ELSE <<204, Unwrap(o)>>

SerBool(b) == IF b THEN <<195>> ELSE <<194>>

RECURSIVE SerNode(_)
SerNode(node) ==
    <<148>> \o SerOptU8(node.value)
            \o (IF IsSome(node.left) THEN SerNode(Unwrap(node.left)) ELSE <<192>>)
            \o (IF IsSome(node.right) THEN SerNode(Unwrap(node.right)) ELSE <<192>>)
            \o SerBool(node.is_end_node)

\* rmp_serde::to_vec(&HuffmanTree)
SerTree(tree) ==
    <<145>> \o (IF IsSome(tree.root_node) THEN SerNode(Unwrap(tree.root_node)) ELSE <<192>>)

\* The reader of that encoding: each parser takes the bytes and a position
\* and returns [ok, val, pos].  Encodings rmp_serde would also accept but
\* to_vec never writes (wider integer or array forms) are read as errors.
ParseFail == [ok |-> FALSE, val |-> None, pos |-> 0]

ParseOptU8(bytes, pos) ==
    IF pos > Len(bytes) THEN ParseFail
    ELSE IF bytes[pos] = 192 THEN [ok |-> TRUE, val |-> None, pos |-> pos + 1]
    ELSE IF bytes[pos] < 128 THEN [ok |-> TRUE, val |-> Some(bytes[pos]), pos |-> pos + 1]
    ELSE IF bytes[pos] = 204 /\ pos + 1 <= Len(bytes)
    THEN [ok |-> TRUE, val |-> Some(bytes[pos + 1]), pos |-> pos + 2]
    ELSE ParseFail

ParseBool(bytes, pos) ==
    IF pos > Len(bytes) THEN ParseFail
    ELSE IF bytes[pos] = 194 THEN [ok |-> TRUE, val |-> FALSE, pos |-> pos + 1]
    ELSE IF bytes[pos] = 195 THEN [ok |-> TRUE, val |-> TRUE, pos |-> pos + 1]
    ELSE ParseFail

RECURSIVE ParseOptNode(_, _)
ParseOptNode(bytes, pos) ==
    IF pos > Len(bytes) THEN ParseFail
    ELSE IF bytes[pos] = 192 THEN [ok |-> TRUE, val |-> None, pos |-> pos + 1]
    ELSE IF bytes[pos] # 148 THEN ParseFail
    ELSE LET v == ParseOptU8(bytes, pos + 1)
         IN IF ~v.ok THEN ParseFail
            ELSE LET l == ParseOptNode(bytes, v.pos)
                 IN IF ~l.ok THEN ParseFail
                    ELSE LET r == ParseOptNode(bytes, l.pos)
                         IN IF ~r.ok THEN ParseFail
                            ELSE LET e == ParseBool(bytes, r.pos)
                                 IN IF ~e.ok THEN ParseFail
                                    ELSE [ok |-> TRUE,
                                          val |-> Some([value |-> v.val, left |-> l.val,
                                                        right |-> r.val, is_end_node |-> e.val]),
                                          pos |-> e.pos]

\* rmp_serde::from_slice::<HuffmanTree>: [ok, val]; bytes after the value
\* are not looked at
ParseTree(bytes) ==
    IF Len(bytes) = 0 \/ bytes[1] # 145 THEN [ok |-> FALSE, val |-> None]
    ELSE LET n == ParseOptNode(bytes, 2)
         IN IF n.ok THEN [ok |-> TRUE, val |-> [root_node |-> n.val]]
            ELSE [ok |-> FALSE, val |-> None]

\* u16::to_be_bytes of a length below 65536
U16ToBe(n) == <<n \div 256, n % 256>>

\* u16::from_be_bytes
U16FromBe(hi, lo) == hi * 256 + lo

\* Whether Header::to_bytes panics ("length byte not enough")
to_bytes_panics(self) == Len(SerTree(self.huffman_tree)) + 8 + 2 > 65535

\* A faulty to_bytes: the length it declares is that of the tree alone
to_bytes_tree_len(self) ==
    LET serialised_tree == SerTree(self.huffman_tree)
    IN U16ToBe(Len(serialised_tree)) \o to_be_bytes(self.lookback_buffer_len) \o serialised_tree

\* Header::to_bytes
to_bytes(self) ==
    LET serialised_tree == SerTree(self.huffman_tree)
        total_len == Len(serialised_tree) + 8 + 2
    IN U16ToBe(total_len) \o to_be_bytes(self.lookback_buffer_len) \o serialised_tree

\* The line of Header::from_bytes that panics on bytes (at least 2 of
\* them), "" when none does
from_bytes_panic(bytes) ==
    IF U16FromBe(bytes[1], bytes[2]) # Len(bytes) THEN "header.rs:58"
    ELSE IF Len(bytes) < 10 THEN "header.rs:63"
    ELSE IF ~ParseTree(SubSeq(bytes, 11, Len(bytes))).ok THEN "header.rs:69"
    ELSE ""

\* Header::from_bytes
from_bytes(bytes) ==
    [huffman_tree |-> ParseTree(SubSeq(bytes, 11, Len(bytes))).val,
     lookback_buffer_len |-> from_be_bytes(SubSeq(bytes, 3, 10))]

---------------------------------------------------------------------------
(* main.rs: constants, EncodedValue, ChunkMarker *)

MAX_LOOKBACK_BUFFER_LEN == 128

MAX_READ_BUFFER_LEN == 64

MIN_MATCH_SIZE == 3

\* ChunkMarker::MAX_VALUE: output_stream.rs uses it, the sources at hand do
\* not define it; 63 is the value the specification gives (6 bits of length)
ChunkMarker_MAX_VALUE == 63

\* EncodedValue::RawU8(v)
RawU8(v) == <<"RawU8", v>>

\* EncodedValue::OffsetLen(offset_len)
OffsetLenValue(offset_len) == <<"OffsetLen", offset_len>>

\* ChunkMarker::to_u8: self.len | 0b11000000
ChunkMarker_to_u8(len) == 192 + (len % 64)

\* ChunkMarker::from_encoded_u8: v & 0b00111111
from_encoded_u8(v) == v % 64

---------------------------------------------------------------------------
(* output_stream.rs *)

\* A faulty chunks: the bytes in one piece, whatever its length
ChunksUnsplit(bytes, n) == IF bytes = <<>> THEN <<>> ELSE <<bytes>>

\* A faulty chunks: when the last piece is a full one, an empty piece
\* follows it
ChunksWithEmptyTail(bytes, n) ==
    [k \in 1..((Len(bytes) \div n) + 1) |->
        SubSeq(bytes, (k - 1) * n + 1, Min(k * n, Len(bytes)))]

\* slice::chunks(n): consecutive pieces of n elements, the last one shorter
Chunks(bytes, n) ==
    [k \in 1..((Len(bytes) + n - 1) \div n) |->
        SubSeq(bytes, (k - 1) * n + 1, Min(k * n, Len(bytes)))]

\* OutputStream::end_chunk: the bytes it writes to the output for the
\* buffered literals buf (a marker byte, then the chunk, for each chunk)
end_chunk(code_map, buf) ==
    LET bytes == pack_to_u8(code_map, buf)
        chunks == Chunks(bytes, ChunkMarker_MAX_VALUE)
    IN Flatten([k \in 1..Len(chunks) |-> <<ChunkMarker_to_u8(Len(chunks[k]))>> \o chunks[k]])

\* OutputStream::new
OutputStreamNew(code_map) == [buf |-> <<>>, code_map |-> code_map]

\* OutputStream::add and OutputStream::finalise flush the buffer when it is
\* not empty: [written, runs] is what the flush writes and the run it ends
Flush(self) ==
    IF self.buf = <<>>
    THEN [written |-> <<>>, runs |-> <<>>]
    ELSE [written |-> end_chunk(self.code_map, self.buf),
          runs |-> << [buf |-> self.buf, written |-> end_chunk(self.code_map, self.buf)] >>]

\* A faulty add: the match record is written before the buffered literals
add_match_first(self, value) ==
    IF value[1] = "RawU8"
    THEN [self |-> [self EXCEPT !.buf = Append(self.buf, value[2])],
          written |-> <<>>, runs |-> <<>>, panic |-> ""]
    ELSE [self |-> [self EXCEPT !.buf = <<>>],
          written |-> to_bytes_new(value[2]) \o Flush(self).written,
          runs |-> Flush(self).runs, panic |-> ""]

\* OutputStream::add: [self, written, runs, panic]
add(self, value) ==
    IF value[1] = "RawU8"
    THEN [self |-> [self EXCEPT !.buf = Append(self.buf, value[2])],
          written |-> <<>>, runs |-> <<>>, panic |-> ""]
    ELSE IF PackPanics(self.code_map, self.buf)
    THEN [self |-> self, written |-> <<>>, runs |-> <<>>, panic |-> "huffman.rs:137"]
    ELSE [self |-> [self EXCEPT !.buf = <<>>],
          written |-> Flush(self).written \o to_bytes_new(value[2]),
          runs |-> Flush(self).runs, panic |-> ""]

\* OutputStream::finalise: [self, written, runs, panic]
finalise(self) ==
    IF PackPanics(self.code_map, self.buf)
    THEN [self |-> self, written |-> <<>>, runs |-> <<>>, panic |-> "huffman.rs:137"]
    ELSE [self |-> [self EXCEPT !.buf = <<>>],
          written |-> Flush(self).written, runs |-> Flush(self).runs, panic |-> ""]

---------------------------------------------------------------------------
(* helpers.rs, encode.rs *)

\* A faulty iteration of step_buffers' loop: the lookback buffer is not
\* cut to MAX_LOOKBACK_BUFFER_LEN
StepBuffersOnceUntrimmed(data, st, always_drain_read) ==
    LET drain(rb, lb) ==
            IF rb = <<>> THEN [read_buffer |-> rb, lookback_buffer |-> lb]
            ELSE [read_buffer |-> Tail(rb), lookback_buffer |-> Append(lb, Head(rb))]
    IN IF st.pos >= Len(data)
       THEN IF always_drain_read
            THEN [pos |-> st.pos] @@ drain(st.read_buffer, st.lookback_buffer)
            ELSE st
       ELSE LET pushed == Append(st.read_buffer, data[st.pos + 1])
            IN IF Len(pushed) > MAX_READ_BUFFER_LEN \/ always_drain_read
               THEN [pos |-> st.pos + 1] @@ drain(pushed, st.lookback_buffer)
               ELSE [pos |-> st.pos + 1, read_buffer |-> pushed,
                     lookback_buffer |-> st.lookback_buffer]

\* A faulty iteration of step_buffers' loop: at the end of the input
\* nothing leaves the read buffer
StepBuffersOnceIdleAtEnd(data, st, always_drain_read) ==
    LET drain(rb, lb) ==
            IF rb = <<>> THEN [read_buffer |-> rb, lookback_buffer |-> lb]
            ELSE [read_buffer |-> Tail(rb),
                  lookback_buffer |->
                      IF Len(lb) + 1 > MAX_LOOKBACK_BUFFER_LEN
                      THEN Tail(Append(lb, Head(rb)))
                      ELSE Append(lb, Head(rb))]
    IN IF st.pos >= Len(data)
       THEN st
       ELSE LET pushed == Append(st.read_buffer, data[st.pos + 1])
            IN IF Len(pushed) > MAX_READ_BUFFER_LEN \/ always_drain_read
               THEN [pos |-> st.pos + 1] @@ drain(pushed, st.lookback_buffer)
               ELSE [pos |-> st.pos + 1, read_buffer |-> pushed,
                     lookback_buffer |-> st.lookback_buffer]

\* One iteration of step_buffers' loop: st is [pos, read_buffer,
\* lookback_buffer], pos the number of bytes of data the reader has read
StepBuffersOnce(data, st, always_drain_read) ==
    LET drain(rb, lb) ==
            IF rb = <<>> THEN [read_buffer |-> rb, lookback_buffer |-> lb]
            ELSE [read_buffer |-> Tail(rb),
                  lookback_buffer |->
                      IF Len(lb) + 1 > MAX_LOOKBACK_BUFFER_LEN
                      THEN Tail(Append(lb, Head(rb)))
                      ELSE Append(lb, Head(rb))]
    IN IF st.pos >= Len(data)
       THEN IF always_drain_read
            THEN [pos |-> st.pos] @@ drain(st.read_buffer, st.lookback_buffer)
            ELSE st
       ELSE LET pushed == Append(st.read_buffer, data[st.pos + 1])
            IN IF Len(pushed) > MAX_READ_BUFFER_LEN \/ always_drain_read
               THEN [pos |-> st.pos + 1] @@ drain(pushed, st.lookback_buffer)
               ELSE [pos |-> st.pos + 1, read_buffer |-> pushed,
                     lookback_buffer |-> st.lookback_buffer]

\* helpers::step_buffers
step_buffers(n, data, st0, always_drain_read) ==
    LET Step(st, i) == StepBuffersOnce(data, st, always_drain_read)
    IN FoldRange(Step, st0, 1, n)

\* A faulty read of populate_byte_stats: of the bytes of the buffer only
\* the first is counted
PopulateReadFirstByte(data, st) ==
    LET n == Min(10, Len(data) - st.pos)
        buffer == [i \in 1..10 |-> IF i <= n THEN data[st.pos + i] ELSE st.buffer[i]]
        seen == {buffer[1]}
    IN [pos |-> st.pos + n,
        buffer |-> Tup(buffer),
        byte_stats |-> [b \in (DOMAIN st.byte_stats) \cup seen |->
                           (IF b \in DOMAIN st.byte_stats THEN st.byte_stats[b] ELSE 0)
                           + (IF b = buffer[1] THEN 1 ELSE 0)]]

\* One read of populate_byte_stats: st is [pos, buffer, byte_stats]; the
\* loop "for b in buffer" counts all 10 bytes of the buffer, whatever the
\* number of bytes the read has just put into it
PopulateRead(data, st) ==
    LET n == Min(10, Len(data) - st.pos)
        buffer == [i \in 1..10 |-> IF i <= n THEN data[st.pos + i] ELSE st.buffer[i]]
        count(b) == Cardinality({i \in 1..10 : buffer[i] = b})
        seen == {buffer[i] : i \in 1..10}
    IN [pos |-> st.pos + n,
        buffer |-> Tup(buffer),
        byte_stats |-> [b \in (DOMAIN st.byte_stats) \cup seen |->
                           (IF b \in DOMAIN st.byte_stats THEN st.byte_stats[b] ELSE 0) + count(b)]]

\* A faulty iteration of find_match's loop: neither break at the end of
\* the lookback buffer, so that a match may start in the read buffer
FindMatchStepIntoPending(read_buffer, lookback_buffer, st, i) ==
    LET looking_at == IF i < Len(lookback_buffer)
                      THEN lookback_buffer[i + 1]
                      ELSE read_buffer[i - Len(lookback_buffer) + 1]
        cur == st.current_match
    IN IF Len(cur[2]) >= Len(read_buffer)
       THEN st
       ELSE IF looking_at = read_buffer[Len(cur[2]) + 1]
       THEN LET new == <<IF cur[2] = <<>> THEN i ELSE cur[1], Append(cur[2], looking_at)>>
                is_best == IF ~IsSome(st.best_match) THEN TRUE
                           ELSE Len(new[2]) > Len(Unwrap(st.best_match)[2])
            IN [st EXCEPT !.current_match = new,
                          !.best_match = IF is_best THEN Some(new) ELSE @]
       ELSE [st EXCEPT !.current_match = <<0, <<>> >>]

\* A faulty iteration of find_match's loop: a byte that differs from the
\* expected one is passed over and the current match is kept
FindMatchStepKeeping(read_buffer, lookback_buffer, st, i) ==
    IF st.broken THEN st
    ELSE IF i >= Len(lookback_buffer) THEN [st EXCEPT !.broken = TRUE]
    ELSE LET looking_at == lookback_buffer[i + 1]
             cur == st.current_match
         IN IF Len(cur[2]) >= Len(read_buffer)
            THEN st
            ELSE IF looking_at = read_buffer[Len(cur[2]) + 1]
            THEN LET new == <<IF cur[2] = <<>> THEN i ELSE cur[1], Append(cur[2], looking_at)>>
                     is_best == IF ~IsSome(st.best_match) THEN TRUE
                                ELSE Len(new[2]) > Len(Unwrap(st.best_match)[2])
                 IN [st EXCEPT !.current_match = new,
                               !.best_match = IF is_best THEN Some(new) ELSE @]
            ELSE st

\* One iteration of find_match's loop "for i in 0..total_len": st is
\* [current_match, best_match, broken]; a match is <<offset, bytes>>
FindMatchStep(read_buffer, lookback_buffer, st, i) ==
    IF st.broken THEN st
    ELSE IF i >= Len(lookback_buffer) THEN [st EXCEPT !.broken = TRUE]
    ELSE LET looking_at == lookback_buffer[i + 1]
             cur == st.current_match
         IN IF Len(cur[2]) >= Len(read_buffer)
            THEN st
            ELSE IF looking_at = read_buffer[Len(cur[2]) + 1]
            THEN LET new == <<IF cur[2] = <<>> THEN i ELSE cur[1], Append(cur[2], looking_at)>>
                     is_best == IF ~IsSome(st.best_match) THEN TRUE
                                ELSE Len(new[2]) > Len(Unwrap(st.best_match)[2])
                 IN [st EXCEPT !.current_match = new,
                               !.best_match = IF is_best THEN Some(new) ELSE @]
            ELSE [st EXCEPT !.current_match = <<0, <<>> >>]

\* The best_match find_match's loop ends with
BestMatch(read_buffer, lookback_buffer, no_matching) ==
    LET total_len == Len(read_buffer) + Len(lookback_buffer)
        Step(st, i) == FindMatchStep(read_buffer, lookback_buffer, st, i)
        st0 == [current_match |-> <<0, <<>> >>, best_match |-> None, broken |-> FALSE]
    IN IF no_matching THEN None ELSE FoldRange(Step, st0, 0, total_len - 1).best_match

\* A faulty find_match: a best match of any length becomes an OffsetLen
find_match_any_length(read_buffer, lookback_buffer, no_matching) ==
    LET best_match == BestMatch(read_buffer, lookback_buffer, no_matching)
    IN IF ~IsSome(best_match) THEN RawU8(Head(read_buffer))
       ELSE OffsetLenValue(new_with_match(U64FromNat(Unwrap(best_match)[1]),
                                          U64FromNat(Len(Unwrap(best_match)[2])),
                                          Some(Unwrap(best_match)[2])))

\* find_match (the read buffer is not empty)
find_match(read_buffer, lookback_buffer, no_matching) ==
    LET best_match == BestMatch(read_buffer, lookback_buffer, no_matching)
    IN IF ~IsSome(best_match) THEN RawU8(Head(read_buffer))
       ELSE IF Len(Unwrap(best_match)[2]) < MIN_MATCH_SIZE THEN RawU8(Head(read_buffer))
       ELSE OffsetLenValue(new_with_match(U64FromNat(Unwrap(best_match)[1]),
                                          U64FromNat(Len(Unwrap(best_match)[2])),
                                          Some(Unwrap(best_match)[2])))

---------------------------------------------------------------------------
(* decode.rs *)

\* The locals of decode() before its loop; pos is the number of bytes the
\* reader has read.  DecodeParseState is <<name, argument>>; a usize that
\* has wrapped below zero is kept as the negative number it is congruent to
DecodeNew ==
    [pos |-> 0, output_buffer |-> <<>>, read_buffer |-> <<>>, raw_byte_buffer |-> <<>>,
     offset_len_read_buffer |-> <<>>, header_buffer |-> <<>>,
     decode_state |-> <<"Start", 0>>, header |-> None]

\* A faulty finalise_match: no check of the range, which it cuts to the window
finalise_match_unchecked(read_buffer, offset_len, checks) ==
    [read_buffer |-> read_buffer \o SubSeq(read_buffer,
                                           Min(U64ToNat(offset_len.offset), Len(read_buffer)) + 1,
                                           Min(U64ToNat(range_end(offset_len)), Len(read_buffer))),
     panic |-> ""]

\* A faulty finalise_match: the offset is counted back from the end of
\* the window
finalise_match_from_tail(read_buffer, offset_len, checks) ==
    LET end == range_end(offset_len)
        start == offset_len.offset
    IN IF range_end_overflows(offset_len) /\ checks
       THEN [read_buffer |-> read_buffer, panic |-> "offset_len.rs:134"]
       ELSE IF U64Less(U64FromNat(Len(read_buffer)), end)
       THEN [read_buffer |-> read_buffer, panic |-> "decode.rs:177"]
       ELSE IF U64Less(end, start)
       THEN [read_buffer |-> read_buffer, panic |-> "decode.rs:184"]
       ELSE [read_buffer |-> read_buffer \o SubSeq(read_buffer,
                                                   Len(read_buffer) - U64ToNat(end) + 1,
                                                   Len(read_buffer) - U64ToNat(start)),
             panic |-> ""]

\* finalise_match: [read_buffer, panic].  range_end panics on overflow when
\* overflow is checked and wraps otherwise; VecDeque::range panics on a
\* range whose start is beyond its end.  (The message of the panic of line
\* 177 is made with read_buffer_to_string, which panics itself on a window
\* that is not UTF-8: a panic of finalise_match either way.)
finalise_match(read_buffer, offset_len, checks) ==
    LET end == range_end(offset_len)
        start == offset_len.offset
    IN IF range_end_overflows(offset_len) /\ checks
       THEN [read_buffer |-> read_buffer, panic |-> "offset_len.rs:134"]
       ELSE IF U64Less(U64FromNat(Len(read_buffer)), end)
       THEN [read_buffer |-> read_buffer, panic |-> "decode.rs:177"]
       ELSE IF U64Less(end, start)
       THEN [read_buffer |-> read_buffer, panic |-> "decode.rs:184"]
       ELSE [read_buffer |-> read_buffer \o SubSeq(read_buffer, U64ToNat(start) + 1, U64ToNat(end)),
             panic |-> ""]

\* A faulty trimming of the window: the oldest bytes leave the window and
\* are not kept in the output buffer
TrimReadBufferDropping(d) ==
    LET n == Len(d.read_buffer) - MAX_LOOKBACK_BUFFER_LEN
    IN IF n <= 0 THEN d
       ELSE [d EXCEPT !.read_buffer = SubSeq(d.read_buffer, n + 1, Len(d.read_buffer))]

\* "while read_buffer.len() > MAX_LOOKBACK_BUFFER_LEN": the oldest bytes
\* of the window move to the output buffer
TrimReadBuffer(d) ==
    LET n == Len(d.read_buffer) - MAX_LOOKBACK_BUFFER_LEN
    IN IF n <= 0 THEN d
       ELSE [d EXCEPT !.output_buffer = @ \o SubSeq(d.read_buffer, 1, n),
                      !.read_buffer = SubSeq(d.read_buffer, n + 1, Len(d.read_buffer))]

\* The arms of "match decode_state" on a byte v: each gives [dec, panic]
OnStart(d, v) ==
    [dec |-> [d EXCEPT !.header_buffer = <<v>>, !.decode_state = <<"ReadingHeaderLen", v>>],
     panic |-> ""]

OnReadingHeaderLen(d, v, checks) ==
    LET header_len == U16FromBe(d.decode_state[2], v)
    IN IF header_len < 2 /\ checks
       THEN [dec |-> d, panic |-> "decode.rs:42"]
       ELSE [dec |-> [d EXCEPT !.header_buffer = Append(@, v),
                               !.decode_state = <<"ReadingHeader", header_len - 2>>],
             panic |-> ""]

\* A faulty ReadingHeader arm: the header is taken as it is once its bytes
\* are read, its tree not deserialized
OnReadingHeaderUnparsed(d, v, checks) ==
    LET remaining == d.decode_state[2]
        header_buffer == Append(d.header_buffer, v)
    IN IF remaining - 1 # 0
       THEN [dec |-> [d EXCEPT !.header_buffer = header_buffer,
                               !.decode_state = <<"ReadingHeader", remaining - 1>>],
             panic |-> ""]
       ELSE [dec |-> [d EXCEPT !.header_buffer = header_buffer,
                               !.header = Some(HeaderNew([root_node |-> None], Zero64)),
                               !.decode_state = <<"ExpectingMatchOrRawChunk", 0>>],
             panic |-> ""]

OnReadingHeader(d, v, checks) ==
    LET remaining == d.decode_state[2]
        header_buffer == Append(d.header_buffer, v)
    IN IF remaining = 0 /\ checks
       THEN [dec |-> d, panic |-> "decode.rs:46"]
       ELSE IF remaining - 1 # 0
       THEN [dec |-> [d EXCEPT !.header_buffer = header_buffer,
                               !.decode_state = <<"ReadingHeader", remaining - 1>>],
             panic |-> ""]
       ELSE IF from_bytes_panic(header_buffer) # ""
       THEN [dec |-> d, panic |-> from_bytes_panic(header_buffer)]
       ELSE [dec |-> [d EXCEPT !.header_buffer = header_buffer,
                               !.header = Some(from_bytes(header_buffer)),
                               !.decode_state = <<"ExpectingMatchOrRawChunk", 0>>],
             panic |-> ""]

\* A faulty v >> 6: the top bit is taken to be set
LeadingBitSet(v) == 2 + ((v \div 64) % 2)

\* v >> 6
LeadingBits(v) == v \div 64

OnExpectingMatchOrRawChunk(d, v) ==
    IF LeadingBits(v) = 2
    THEN [dec |-> [d EXCEPT !.offset_len_read_buffer = <<v>>,
                            !.decode_state = <<"OffsetLenRead",
                                               read_header_byte(v)[1] + read_header_byte(v)[2]>>],
          panic |-> ""]
    ELSE IF LeadingBits(v) = 3
    THEN [dec |-> [d EXCEPT !.decode_state = <<"RawByteChunk", from_encoded_u8(v)>>],
          panic |-> ""]
    ELSE [dec |-> d, panic |-> "decode.rs:75"]

OnRawByteChunk(d, v, checks) ==
    LET remaining == d.decode_state[2]
        raw_byte_buffer == Append(d.raw_byte_buffer, v)
        tree == Unwrap(d.header).huffman_tree
    IN IF remaining = 0 /\ checks
       THEN [dec |-> d, panic |-> "decode.rs:85"]
       ELSE IF (remaining - 1) % 256 # 0
       THEN [dec |-> [d EXCEPT !.raw_byte_buffer = raw_byte_buffer,
                               !.decode_state = <<"RawByteChunk", (remaining - 1) % 256>>],
             panic |-> ""]
       ELSE IF ~IsSome(tree.root_node)
       THEN [dec |-> d, panic |-> "huffman.rs:209"]
       ELSE IF UnpackResult(raw_byte_buffer, tree).panic
       THEN [dec |-> d, panic |-> "huffman.rs:213"]
       ELSE [dec |-> [d EXCEPT !.raw_byte_buffer = <<>>,
                               !.read_buffer = @ \o unpack_bytes(raw_byte_buffer, tree),
                               !.decode_state = <<"ExpectingMatchOrRawChunk", 0>>],
             panic |-> ""]

OnOffsetLenRead(d, v, checks) ==
    LET remaining_bytes == d.decode_state[2]
        buffer == Append(d.offset_len_read_buffer, v)
        matched == finalise_match(d.read_buffer, of_bytes_new(buffer), checks)
    IN IF remaining_bytes - 1 # 0
       THEN [dec |-> [d EXCEPT !.offset_len_read_buffer = buffer,
                               !.decode_state = <<"OffsetLenRead", remaining_bytes - 1>>],
             panic |-> ""]
       ELSE IF of_bytes_new_panics(buffer)
       THEN [dec |-> d, panic |-> "offset_len.rs:95"]
       ELSE IF matched.panic # ""
       THEN [dec |-> d, panic |-> matched.panic]
       ELSE [dec |-> [d EXCEPT !.offset_len_read_buffer = buffer,
                               !.read_buffer = matched.read_buffer,
                               !.decode_state = <<"ExpectingMatchOrRawChunk", 0>>],
             panic |-> ""]

\* A faulty final match: every state passes
FinalStateUnchecked(decode_state) == ""

\* "Handle final decode state": the panic of the state decode's loop ends
\* in, "" for the states it lets pass
FinalStatePanic(decode_state) ==
    IF decode_state[1] \in {"Start", "ExpectingMatchOrRawChunk"} THEN ""
    ELSE IF decode_state[1] \in {"ReadingHeaderLen", "ReadingHeader"} THEN "decode.rs:132"
    ELSE IF decode_state[1] = "RawByteChunk" THEN "decode.rs:135"
    ELSE "decode.rs:144"

---------------------------------------------------------------------------
(* The inputs of the model *)

\* Longest of the exhaustively enumerated short inputs
MaxShort == 3

\* The bytes the short inputs are made of
ShortAlphabet == {65, 66}

\* "A_DEAD_DAD_CEDED_A_BAD_BABE_A_BEADED_ABACA_BED", the string of the
\* tests of huffman.rs and header.rs
WikiSample ==
    <<65, 95, 68, 69, 65, 68, 95, 68, 65, 68, 95, 67, 69, 68, 69, 68, 95, 65, 95, 66, 65, 68, 95,
      66, 65, 66, 69, 95, 65, 95, 66, 69, 65, 68, 69, 68, 95, 65, 66, 65, 67, 65, 95, 66, 69, 68>>

\* Thirty bytes over four values with few repetitions of three bytes
SkewedSample ==
    <<4, 4, 4, 4, 2, 1, 2, 4, 2, 4, 1, 2, 3, 4, 3, 4, 4, 2, 3, 3, 1, 4, 2, 3, 2, 1, 4, 4, 3, 2>>

\* Thirty bytes over five values: 26 literals, whose codes fill 62 of the
\* 64 bits of pack_to_u8's accumulator, then a match of four bytes
PaddedRunSample ==
    <<1, 2, 2, 1, 2, 5, 3, 5, 4, 5, 1, 4, 2, 2, 4, 2, 3, 5, 2, 3, 1, 1, 1, 3, 5, 5, 4, 2, 3, 5>>

\* 125 bytes over eight values in which find_match finds no match, then
\* 68 times the byte 9: the codes of the eight values take four and five
\* bits, so that the run of literals before the first match packs to more
\* than one chunk
SplitRunSample ==
    <<3, 2, 4, 1, 3, 4, 5, 7, 6, 2, 6, 5, 7, 5, 3, 4, 7, 8, 4, 8, 6, 4, 6, 3, 3,
      4, 6, 4, 7, 1, 4, 2, 4, 2, 1, 6, 7, 6, 7, 5, 1, 3, 8, 3, 1, 7, 6, 5, 5, 4,
      7, 3, 8, 1, 7, 8, 6, 6, 4, 3, 2, 5, 3, 6, 1, 2, 3, 5, 1, 7, 3, 6, 2, 3, 2,
      7, 5, 5, 5, 2, 3, 8, 4, 5, 5, 6, 2, 5, 6, 1, 7, 4, 4, 1, 8, 7, 7, 1, 2, 4,
      3, 6, 3, 4, 8, 8, 7, 3, 1, 1, 6, 4, 5, 8, 1, 4, 4, 8, 4, 3, 7, 7, 4, 8, 4>>
    \o Repeat(<<9>>, 68)

\* The first n bytes of s repeated without end
Cyclic(s, n) == Tup([i \in 1..n |-> s[((i - 1) % Len(s)) + 1]])

\* The files encode() is run on: every short input (the empty one and the
\* one-byte ones among them), the samples, an input as long as the window
\* and one longer than the window and the read buffer together
Inputs ==
    UNION {[1..n -> ShortAlphabet] : n \in 0..MaxShort}
    \cup {WikiSample, SkewedSample, PaddedRunSample, SplitRunSample,
          Cyclic(WikiSample, MAX_LOOKBACK_BUFFER_LEN),
          Cyclic(WikiSample, MAX_LOOKBACK_BUFFER_LEN + MAX_READ_BUFFER_LEN + MaxShort)}

Idle == <<>>

NoTrace == [tree |-> None, values |-> <<>>, runs |-> <<>>, matches |-> <<>>, tampered |-> FALSE]

\* Before encode() runs: the input file exists, the others do not
Init ==
    /\ pc = "encode"
    /\ overflow_checks \in BOOLEAN
    /\ panic = ""
    /\ \E data \in Inputs : files = [unencoded |-> data, encoded |-> None, decoded |-> None]
    /\ enc = Idle
    /\ os = Idle
    /\ dec = Idle
    /\ script = Idle
    /\ trace = NoTrace
    /\ fn = Idle

---------------------------------------------------------------------------
(* encode.rs: the steps of encode() *)

\* encode.rs 37-54: the locals, File::create of the container, File::open
EncodeOpen ==
    /\ pc = "encode"
    /\ pc' = "populate_byte_stats"
    /\ files' = [files EXCEPT !.encoded = Some(<<>>)]
    /\ enc' = [pos |-> 0, buffer |-> Repeat(<<0>>, 10), byte_stats |-> EmptyStats,
               read_buffer |-> <<>>, lookback_buffer |-> <<>>]
    /\ UNCHANGED <<overflow_checks, panic, os, dec, script, trace, fn>>

\* One turn of populate_byte_stats' loop; on Ok(0) it returns and encode()
\* rewinds the reader
PopulateByteStats ==
    /\ pc = "populate_byte_stats"
    /\ IF enc.pos >= Len(files.unencoded)
       THEN /\ enc' = [enc EXCEPT !.pos = 0]
            /\ pc' = "create_output_stream"
       ELSE /\ enc' = [k \in DOMAIN enc |->
                          IF k \in {"pos", "buffer", "byte_stats"}
                          THEN PopulateRead(files.unencoded, enc)[k] ELSE enc[k]]
            /\ pc' = pc
    /\ UNCHANGED <<overflow_checks, panic, files, os, dec, script, trace, fn>>

\* create_output_stream: build_tree (which panics on empty statistics),
\* tree_to_code_map, OutputStream::new, Header::new, write_header
CreateOutputStream ==
    /\ pc = "create_output_stream"
    /\ IF build_tree(enc.byte_stats) = {}
       THEN /\ panic' = "huffman.rs:66"
            /\ pc' = "panicked"
            /\ UNCHANGED <<files, os, trace>>
       ELSE \E tree \in build_tree(enc.byte_stats) :
            /\ os' = OutputStreamNew(tree_to_code_map(tree))
            /\ files' = [files EXCEPT !.encoded =
                             Some(to_bytes(HeaderNew(tree, U64FromNat(MAX_LOOKBACK_BUFFER_LEN))))]
            /\ trace' = [trace EXCEPT !.tree = Some(tree)]
            /\ panic' = panic
            /\ pc' = "init_read_buffer"
    /\ UNCHANGED <<overflow_checks, enc, dec, script, fn>>

\* "Init read buffer": MAX_READ_BUFFER_LEN calls of step_buffers(1, .., false)
InitReadBuffer ==
    /\ pc = "init_read_buffer"
    /\ LET Step(st, i) == step_buffers(1, files.unencoded, st, FALSE)
           st0 == [pos |-> enc.pos, read_buffer |-> enc.read_buffer,
                   lookback_buffer |-> enc.lookback_buffer]
           st1 == FoldRange(Step, st0, 1, MAX_READ_BUFFER_LEN)
       IN enc' = [enc EXCEPT !.pos = st1.pos, !.read_buffer = st1.read_buffer,
                             !.lookback_buffer = st1.lookback_buffer]
    /\ pc' = "encode_loop"
    /\ UNCHANGED <<overflow_checks, panic, files, os, dec, script, trace, fn>>

\* What OutputStream::add and finalise do to the stream, the container
\* and the history; r is their [self, written, runs, panic].  The history
\* keeps for each match where its record starts in the container and the
\* lookback buffer encode() has when find_match gives it
Written(r, value) ==
    /\ os' = r.self
    /\ panic' = r.panic
    /\ files' = [files EXCEPT !.encoded = Some(Unwrap(@) \o r.written)]
    /\ trace' = [trace EXCEPT
                   !.values = @ \o value,
                   !.matches = IF value # <<>> /\ value[1][1] = "OffsetLen" /\ r.panic = ""
                               THEN Append(@, [at |-> Len(Unwrap(files.encoded)) + Len(r.written)
                                                       - Len(to_bytes_new(value[1][2])),
                                               lookback_buffer |->
                                                   IF enc = Idle THEN <<>>
                                                   ELSE enc.lookback_buffer])
                               ELSE @,
                   !.runs = @ \o [k \in 1..Len(r.runs) |->
                                     [buf |-> r.runs[k].buf, written |-> r.runs[k].written,
                                      at |-> Len(Unwrap(files.encoded))]]]

\* One turn of "while read_buffer.len() > 0": find_match, add, step_buffers
EncodeLoop ==
    /\ pc = "encode_loop"
    /\ Len(enc.read_buffer) > 0
    /\ LET next_value == find_match(enc.read_buffer, enc.lookback_buffer, FALSE)
           step_size == IF next_value[1] = "RawU8" THEN 1 ELSE U64ToNat(next_value[2].len)
           r == add(os, next_value)
           st0 == [pos |-> enc.pos, read_buffer |-> enc.read_buffer,
                   lookback_buffer |-> enc.lookback_buffer]
           st1 == step_buffers(step_size, files.unencoded, st0, TRUE)
       IN /\ Written(r, <<next_value>>)
          /\ IF r.panic # ""
             THEN pc' = "panicked" /\ enc' = enc
             ELSE /\ pc' = pc
                  /\ enc' = [enc EXCEPT !.pos = st1.pos, !.read_buffer = st1.read_buffer,
                                        !.lookback_buffer = st1.lookback_buffer]
    /\ UNCHANGED <<overflow_checks, dec, script, fn>>

\* After the loop: output_stream.finalise()
EncodeFinalise ==
    /\ pc = "encode_loop"
    /\ Len(enc.read_buffer) = 0
    /\ Written(finalise(os), <<>>)
    /\ pc' = IF finalise(os).panic # "" THEN "panicked" ELSE "encoded"
    /\ UNCHANGED <<overflow_checks, enc, dec, script, fn>>

---------------------------------------------------------------------------
(* decode.rs: the steps of decode() *)

\* decode.rs 11-22: decode() is run on the container encode() has finished
DecodeOpen ==
    /\ pc = "encoded"
    /\ pc' = "decode"
    /\ dec' = DecodeNew
    /\ UNCHANGED <<overflow_checks, panic, files, enc, os, script, trace, fn>>

\* The byte the reader gives next
NextByte == Unwrap(files.encoded)[dec.pos + 1]

\* decode() is in its loop, in state name, and the reader has a byte left
Reading(name) ==
    /\ pc = "decode"
    /\ dec.pos < Len(Unwrap(files.encoded))
    /\ dec.decode_state[1] = name

\* One turn of decode's loop on a byte: the arm's result r, then the
\* trimming of the window; a panic ends the run
Turn(r) ==
    /\ panic' = r.panic
    /\ pc' = IF r.panic # "" THEN "panicked" ELSE pc
    /\ dec' = IF r.panic # "" THEN dec
              ELSE TrimReadBuffer([r.dec EXCEPT !.pos = dec.pos + 1])
    /\ UNCHANGED <<overflow_checks, files, enc, os, script, trace, fn>>

DecodeStart ==
    /\ Reading("Start")
    /\ Turn(OnStart(dec, NextByte))

DecodeReadingHeaderLen ==
    /\ Reading("ReadingHeaderLen")
    /\ Turn(OnReadingHeaderLen(dec, NextByte, overflow_checks))

DecodeReadingHeader ==
    /\ Reading("ReadingHeader")
    /\ Turn(OnReadingHeader(dec, NextByte, overflow_checks))

DecodeExpectingMatchOrRawChunk ==
    /\ Reading("ExpectingMatchOrRawChunk")
    /\ Turn(OnExpectingMatchOrRawChunk(dec, NextByte))

DecodeRawByteChunk ==
    /\ Reading("RawByteChunk")
    /\ Turn(OnRawByteChunk(dec, NextByte, overflow_checks))

DecodeOffsetLenRead ==
    /\ Reading("OffsetLenRead")
    /\ Turn(OnOffsetLenRead(dec, NextByte, overflow_checks))

\* A faulty end of decode(): the output file is written before the final
\* state is matched
DecodeEofWritingFirst ==
    /\ pc = "decode"
    /\ dec.pos >= Len(Unwrap(files.encoded))
    /\ files' = [files EXCEPT !.decoded = Some(dec.output_buffer \o dec.read_buffer)]
    /\ panic' = FinalStatePanic(dec.decode_state)
    /\ pc' = IF FinalStatePanic(dec.decode_state) # "" THEN "panicked" ELSE "done"
    /\ UNCHANGED <<overflow_checks, enc, os, dec, script, trace, fn>>

\* Ok(0): the loop ends, the final state is matched, and only then is the
\* output file created and written (decode.rs 128-154)
DecodeEof ==
    /\ pc = "decode"
    /\ dec.pos >= Len(Unwrap(files.encoded))
    /\ panic' = FinalStatePanic(dec.decode_state)
    /\ IF FinalStatePanic(dec.decode_state) # ""
       THEN pc' = "panicked" /\ files' = files
       ELSE /\ pc' = "done"
            /\ files' = [files EXCEPT !.decoded = Some(dec.output_buffer \o dec.read_buffer)]
    /\ UNCHANGED <<overflow_checks, enc, os, dec, script, trace, fn>>

---------------------------------------------------------------------------
(* A user of OutputStream that adds the values of a script, as the test   *)
(* of output_stream.rs does, and the container reaching decode() damaged  *)

\* Longest of the exhaustively enumerated scripts
MaxScript == 2

\* Longest script whose container is also given to decode() with a byte changed
MaxCorruptScript == 1

\* Counts giving a single tree: codes 0 for 4, 10 for 2, 111 for 3,
\* 1100 for 1 and 1101 for the end node
StreamStats == (1 :> 4) @@ (2 :> 8) @@ (3 :> 6) @@ (4 :> 12)

\* u64::MAX
MaxU64 == SIZES[8]

\* The values of the short scripts: two literals, copies of one and two
\* bytes from the start of the window, and a copy whose range end wraps
ScriptValues ==
    {RawU8(4), RawU8(2),
     OffsetLenValue(OffsetLenNew(U64FromNat(0), U64FromNat(1))),
     OffsetLenValue(OffsetLenNew(U64FromNat(0), U64FromNat(2))),
     OffsetLenValue(OffsetLenNew(MaxU64, U64FromNat(2)))}

\* The literal run whose packed form fills one chunk exactly: two-bit
\* codes, then the four bits of the end code
ChunkRun == (ChunkMarker_MAX_VALUE * 8 - 4) \div 2

\* How far the long runs go beyond ChunkRun
MaxRunOver == 3

\* h literals 4 (one bit each), then n literals 2 (two bits each)
LongRun(h, n) == Repeat(<<RawU8(4)>>, h) \o Repeat(<<RawU8(2)>>, n)

\* Literals and matches in turn: a run of two literals before a match, a
\* single literal between two matches, two matches in a row, a literal at
\* the end
MixedScript ==
    <<RawU8(4), RawU8(2),
      OffsetLenValue(OffsetLenNew(U64FromNat(0), U64FromNat(2))),
      RawU8(2),
      OffsetLenValue(OffsetLenNew(U64FromNat(1), U64FromNat(2))),
      OffsetLenValue(OffsetLenNew(U64FromNat(0), U64FromNat(2))),
      RawU8(4)>>

\* Runs whose codes take 60 to 63 of the 64 bits of pack_to_u8's
\* accumulator: 4 to 1 bits are left for the four bits of the end code
AccumulatorRuns == {LongRun(h, n) : h \in 0..1, n \in 30..31}

Scripts ==
    UNION {[1..n -> ScriptValues] : n \in 0..MaxScript}
    \cup {LongRun(h, n) : h \in 0..1, n \in (ChunkRun - 1)..(ChunkRun + MaxRunOver)}
    \cup {MixedScript} \cup AccumulatorRuns

InitStream ==
    /\ pc = "stream"
    /\ overflow_checks \in BOOLEAN
    /\ panic = ""
    /\ files = [unencoded |-> <<>>, encoded |-> None, decoded |-> None]
    /\ enc = Idle
    /\ os = Idle
    /\ dec = Idle
    /\ script \in Scripts
    /\ trace = NoTrace
    /\ fn = Idle

\* A lookback length shorter than the bytes the mixed script decodes to
ShortLookbackLen == 2

\* The lookback lengths the header given to write_header declares: that
\* of encode(), and for the mixed script also the short one
HeaderLookbackLens(s) ==
    {MAX_LOOKBACK_BUFFER_LEN} \cup (IF s = MixedScript THEN {ShortLookbackLen} ELSE {})

\* OutputStream::new on the code map of a tree, and write_header
StreamNew ==
    /\ pc = "stream"
    /\ \E tree \in build_tree(StreamStats), lookback_buffer_len \in HeaderLookbackLens(script) :
        /\ os' = OutputStreamNew(tree_to_code_map(tree))
        /\ files' = [files EXCEPT !.encoded =
                         Some(to_bytes(HeaderNew(tree, U64FromNat(lookback_buffer_len))))]
        /\ trace' = [trace EXCEPT !.tree = Some(tree)]
    /\ pc' = "stream_add"
    /\ UNCHANGED <<overflow_checks, panic, enc, dec, script, fn>>

\* output_stream.add(value) for the next value of the script
StreamAdd ==
    /\ pc = "stream_add"
    /\ Len(trace.values) < Len(script)
    /\ Written(add(os, script[Len(trace.values) + 1]), <<script[Len(trace.values) + 1]>>)
    /\ pc' = IF add(os, script[Len(trace.values) + 1]).panic # "" THEN "panicked" ELSE pc
    /\ UNCHANGED <<overflow_checks, enc, dec, script, fn>>

\* output_stream.finalise() after the last value
StreamFinalise ==
    /\ pc = "stream_add"
    /\ Len(trace.values) = Len(script)
    /\ Written(finalise(os), <<>>)
    /\ pc' = IF finalise(os).panic # "" THEN "panicked" ELSE "encoded"
    /\ UNCHANGED <<overflow_checks, enc, dec, script, fn>>

\* The container decode() reads is a truncated one: it ends where the
\* reader stands.  (decode() reads the file once, front to back, so where
\* the file ends can be settled when the reader gets there.)
Truncate ==
    /\ pc = "decode"
    /\ ~trace.tampered
    /\ Len(script) <= MaxScript
    /\ dec.pos < Len(Unwrap(files.encoded))
    /\ files' = [files EXCEPT !.encoded = Some(SubSeq(Unwrap(@), 1, dec.pos))]
    /\ trace' = [trace EXCEPT !.tampered = TRUE]
    /\ UNCHANGED <<pc, overflow_checks, panic, enc, os, dec, script, fn>>

\* The bytes a damaged container has in the place of the written one: as
\* the low byte of the header length they declare a header of 0, 1, 2, 5,
\* 10 or 20 bytes (less than the length bytes, only these, less than the
\* fixed part, only the fixed part, a part of the tree) or one longer
\* than the container; as a record marker they are no marker (0 to 65)
\* or the marker of a chunk of no byte (192)
CorruptBytes == {0, 1, 2, 5, 10, 20, 65, 192}

\* The container decode() reads has one byte changed: a byte of the header
\* length, one of the first two of the tree, a record marker or a byte of
\* a match record
Corrupt ==
    /\ pc = "decode"
    /\ ~trace.tampered
    /\ Len(script) <= MaxCorruptScript
    /\ dec.pos < Len(Unwrap(files.encoded))
    /\ \/ dec.pos \in {0, 1, 10, 11}
       \/ dec.decode_state[1] \in {"ExpectingMatchOrRawChunk", "OffsetLenRead"}
    /\ \E b \in CorruptBytes :
        /\ b # NextByte
        /\ files' = [files EXCEPT !.encoded = Some([Unwrap(@) EXCEPT ![dec.pos + 1] = b])]
    /\ trace' = [trace EXCEPT !.tampered = TRUE]
    /\ UNCHANGED <<pc, overflow_checks, panic, enc, os, dec, script, fn>>

---------------------------------------------------------------------------
(* OffsetLen::to_bytes_new and of_bytes_new on their own, as the test     *)
(* all_bytes_offset_len_round_trip runs them                              *)

\* x + 1
Successor(x) == WrappingAdd(x, U64FromNat(1))

\* 0, 1, every byte-width boundary and the value just above each boundary
\* but the last
BoundaryValues ==
    {U64FromNat(0), U64FromNat(1)}
    \cup {SIZES[k] : k \in 1..8} \cup {Successor(SIZES[k]) : k \in 1..7}

InitOffsetLen ==
    /\ pc = "offset_len"
    /\ overflow_checks \in BOOLEAN
    /\ panic = ""
    /\ files = Idle
    /\ enc = Idle
    /\ os = Idle
    /\ dec = Idle
    /\ script = Idle
    /\ trace = NoTrace
    /\ \E offset \in BoundaryValues, len \in BoundaryValues :
        fn = [arg |-> OffsetLenNew(offset, len), mid |-> None, ret |-> None]

OffsetLenToBytes ==
    /\ pc = "offset_len"
    /\ fn' = [fn EXCEPT !.mid = Some(to_bytes_new(fn.arg))]
    /\ pc' = "offset_len_bytes"
    /\ UNCHANGED <<overflow_checks, panic, files, enc, os, dec, script, trace>>

OffsetLenOfBytes ==
    /\ pc = "offset_len_bytes"
    /\ IF of_bytes_new_panics(Unwrap(fn.mid))
       THEN panic' = "offset_len.rs:95" /\ pc' = "panicked" /\ fn' = fn
       ELSE /\ fn' = [fn EXCEPT !.ret = Some(of_bytes_new(Unwrap(fn.mid)))]
            /\ pc' = "offset_len_done"
            /\ panic' = panic
    /\ UNCHANGED <<overflow_checks, files, enc, os, dec, script, trace>>

NextOffsetLen == OffsetLenToBytes \/ OffsetLenOfBytes

SpecOffsetLen == InitOffsetLen /\ [][NextOffsetLen]_vars

---------------------------------------------------------------------------
(* build_tree, tree_to_code_map, pack_to_u8 and unpack_bytes on their     *)
(* own, as the test round_trip of huffman.rs runs them                    *)

\* Longest run of one byte that is packed
MaxPackRun == 66

\* The statistics of WikiSample
WikiStats == [b \in Range(WikiSample) |-> Cardinality({i \in DOMAIN WikiSample : WikiSample[i] = b})]

\* Frequency tables: one byte only, counts with ties, one tree only, the
\* test's, and bytes on both sides of 128 with rmp's nil and u8 markers
\* among them
StatsTables ==
    {(65 :> 1),
     (65 :> 3) @@ (66 :> 2) @@ (67 :> 2),
     StreamStats,
     WikiStats,
     (0 :> 3) @@ (127 :> 1) @@ (128 :> 1) @@ (192 :> 1) @@ (204 :> 2) @@ (255 :> 2)}

\* The tables whose bytes are packed
PackTables == {(65 :> 1), (65 :> 3) @@ (66 :> 2) @@ (67 :> 2), StreamStats}

\* The bytes of a table in increasing order
Ascending(S) ==
    CHOOSE s \in [1..Cardinality(S) -> S] : \A i, j \in DOMAIN s : i < j => s[i] < s[j]

\* The byte sequences packed with a table: the short ones, the runs of one
\* byte, and the bytes of the table in turn
PackInputs(stats) ==
    UNION {[1..n -> DOMAIN stats] : n \in 0..2}
    \cup {Repeat(<<b>>, n) : b \in DOMAIN stats, n \in 0..MaxPackRun}
    \cup {Cyclic(Ascending(DOMAIN stats), n) : n \in 0..MaxPackRun}

InitHuffman ==
    /\ pc = "huffman"
    /\ overflow_checks \in BOOLEAN
    /\ panic = ""
    /\ files = Idle
    /\ enc = Idle
    /\ os = Idle
    /\ dec = Idle
    /\ script = Idle
    /\ trace = NoTrace
    /\ \E stats \in PackTables : \E input \in PackInputs(stats) :
        fn = [arg |-> [stats |-> stats, input |-> input], mid |-> None, ret |-> None]

HuffmanBuildTree ==
    /\ pc = "huffman"
    /\ \E tree \in build_tree(fn.arg.stats) :
        fn' = [fn EXCEPT !.mid = Some([tree |-> tree, code_map |-> tree_to_code_map(tree),
                                       packed |-> None])]
    /\ pc' = "huffman_tree"
    /\ UNCHANGED <<overflow_checks, panic, files, enc, os, dec, script, trace>>

HuffmanPack ==
    /\ pc = "huffman_tree"
    /\ fn' = [fn EXCEPT !.mid = Some([Unwrap(@) EXCEPT
                  !.packed = Some(pack_to_u8(Unwrap(fn.mid).code_map, fn.arg.input))])]
    /\ pc' = "huffman_packed"
    /\ UNCHANGED <<overflow_checks, panic, files, enc, os, dec, script, trace>>

HuffmanUnpack ==
    /\ pc = "huffman_packed"
    /\ fn' = [fn EXCEPT !.ret = Some(unpack_bytes(Unwrap(Unwrap(fn.mid).packed), Unwrap(fn.mid).tree))]
    /\ pc' = "huffman_done"
    /\ UNCHANGED <<overflow_checks, panic, files, enc, os, dec, script, trace>>

NextHuffman == HuffmanBuildTree \/ HuffmanPack \/ HuffmanUnpack

SpecHuffman == InitHuffman /\ [][NextHuffman]_vars

---------------------------------------------------------------------------
(* pack_to_u8 on its own, on code maps given as such, as the test         *)
(* pack_to_u8_big runs it                                                 *)

\* The code map of the test pack_to_u8_big
BigCodeMap ==
    CodeMapNew((1 :> BitsFrom(11, 4)) @@ (2 :> BitsFrom(9, 4)) @@ (4 :> BitsFrom(61, 6))
                   @@ (8 :> BitsFrom(171, 8)) @@ (5 :> BitsFrom(1, 3)),
               BitsFrom(255, 8))

\* The input of the test pack_to_u8_big
BigInput == <<1, 2, 4, 4, 1, 8, 8, 8, 8, 2, 5, 4>>

\* A code map with codes of one bit, of 33, of 61 and of all 64 bits of
\* the accumulator, and an end code of two bits
WideCodeMap ==
    CodeMapNew((1 :> [set_bits |-> Tup([i \in 1..64 |-> i % 2]), bit_size |-> 64])
                   @@ (2 :> [set_bits |-> Tup([i \in 1..64 |-> IF i >= 4 /\ i % 3 # 0 THEN 1 ELSE 0]),
                             bit_size |-> 61])
                   @@ (3 :> [set_bits |-> Tup([i \in 1..64 |-> IF i >= 32 /\ i % 4 # 1 THEN 1 ELSE 0]),
                             bit_size |-> 33])
                   @@ (4 :> BitsFrom(1, 1)),
               BitsFrom(2, 2))

PackCodeMaps == {BigCodeMap, WideCodeMap}

\* Longest of the enumerated sequences of literals, and of the runs of
\* one literal
MaxPackLen == 3

MaxPackRepeat == 22

\* The sequences of literals packed with a code map
PackSequences(code_map) ==
    UNION {[1..n -> DOMAIN code_map.codes] : n \in 0..MaxPackLen}
    \cup {Repeat(<<b>>, n) : b \in DOMAIN code_map.codes, n \in 1..MaxPackRepeat}
    \cup {BigInput : b \in DOMAIN code_map.codes \cap {8}}

InitPack ==
    /\ pc = "pack"
    /\ overflow_checks \in BOOLEAN
    /\ panic = ""
    /\ files = Idle
    /\ enc = Idle
    /\ os = Idle
    /\ dec = Idle
    /\ script = Idle
    /\ trace = NoTrace
    /\ \E code_map \in PackCodeMaps : \E input \in PackSequences(code_map) :
        fn = [arg |-> [code_map |-> code_map, input |-> input], mid |-> None, ret |-> None]

\* pack_to_u8(code_map, input): mid is the accumulator after the loop
\* over the input, ret the output
PackToU8 ==
    /\ pc = "pack"
    /\ fn' = [fn EXCEPT
                !.mid = Some(PackLoop(fn.arg.code_map, fn.arg.input,
                                      [output |-> <<>>, working_bytes |-> Zero64,
                                       bits_left |-> 64])),
                !.ret = Some(pack_to_u8(fn.arg.code_map, fn.arg.input))]
    /\ pc' = "pack_done"
    /\ UNCHANGED <<overflow_checks, panic, files, enc, os, dec, script, trace>>

NextPack == PackToU8

SpecPack == InitPack /\ [][NextPack]_vars

---------------------------------------------------------------------------
(* unpack_bytes on its own, on bytes that pack_to_u8 need not have        *)
(* written                                                                *)

\* Most bytes of the input of unpack_bytes
MaxUnpackLen == 2

\* The bytes the inputs of unpack_bytes are made of: the two of the test
\* bitstream_test (10100101, 11110000), and 00000000, 00000001, 00100101,
\* 10000000, 11111111
UnpackBytes == {0, 1, 37, 128, 165, 240, 255}

UnpackInputs == UNION {[1..n -> UnpackBytes] : n \in 0..MaxUnpackLen}

InitUnpack ==
    /\ pc = "unpack"
    /\ overflow_checks \in BOOLEAN
    /\ panic = ""
    /\ files = Idle
    /\ enc = Idle
    /\ os = Idle
    /\ dec = Idle
    /\ script = Idle
    /\ trace = NoTrace
    /\ \E stats \in PackTables : \E tree \in build_tree(stats) : \E input_bytes \in UnpackInputs :
        fn = [arg |-> [tree |-> tree, input_bytes |-> input_bytes], mid |-> None, ret |-> None]

\* unpack_bytes(input_bytes, tree): ret is the walk when the bits have
\* run out or the end node is met
UnpackBytesOf ==
    /\ pc = "unpack"
    /\ fn' = [fn EXCEPT !.ret = Some(UnpackResult(fn.arg.input_bytes, fn.arg.tree))]
    /\ pc' = "unpack_done"
    /\ UNCHANGED <<overflow_checks, panic, files, enc, os, dec, script, trace>>

NextUnpack == UnpackBytesOf

SpecUnpack == InitUnpack /\ [][NextUnpack]_vars

---------------------------------------------------------------------------
(* Header::to_bytes and Header::from_bytes on their own, as the test of   *)
(* header.rs runs them                                                    *)

\* The lookback lengths of the headers
LookbackLens == {U64FromNat(0), U64FromNat(MAX_LOOKBACK_BUFFER_LEN)} \cup {SIZES[k] : k \in 1..8}

InitHeader ==
    /\ pc = "header"
    /\ overflow_checks \in BOOLEAN
    /\ panic = ""
    /\ files = Idle
    /\ enc = Idle
    /\ os = Idle
    /\ dec = Idle
    /\ script = Idle
    /\ trace = NoTrace
    /\ \E stats \in StatsTables, lookback_buffer_len \in LookbackLens :
        fn = [arg |-> [stats |-> stats, lookback_buffer_len |-> lookback_buffer_len],
              mid |-> None, ret |-> None]

HeaderBuild ==
    /\ pc = "header"
    /\ \E tree \in build_tree(fn.arg.stats) :
        fn' = [fn EXCEPT !.mid = Some([header |-> HeaderNew(tree, fn.arg.lookback_buffer_len),
                                       bytes |-> None])]
    /\ pc' = "header_built"
    /\ UNCHANGED <<overflow_checks, panic, files, enc, os, dec, script, trace>>

HeaderToBytes ==
    /\ pc = "header_built"
    /\ IF to_bytes_panics(Unwrap(fn.mid).header)
       THEN panic' = "header.rs:24" /\ pc' = "panicked" /\ fn' = fn
       ELSE /\ fn' = [fn EXCEPT !.mid = Some([Unwrap(@) EXCEPT
                         !.bytes = Some(to_bytes(Unwrap(fn.mid).header))])]
            /\ pc' = "header_bytes"
            /\ panic' = panic
    /\ UNCHANGED <<overflow_checks, files, enc, os, dec, script, trace>>

HeaderFromBytes ==
    /\ pc = "header_bytes"
    /\ IF from_bytes_panic(Unwrap(Unwrap(fn.mid).bytes)) # ""
       THEN /\ panic' = from_bytes_panic(Unwrap(Unwrap(fn.mid).bytes))
            /\ pc' = "panicked"
            /\ fn' = fn
       ELSE /\ fn' = [fn EXCEPT !.ret = Some(from_bytes(Unwrap(Unwrap(fn.mid).bytes)))]
            /\ pc' = "header_done"
            /\ panic' = panic
    /\ UNCHANGED <<overflow_checks, files, enc, os, dec, script, trace>>

NextHeader == HeaderBuild \/ HeaderToBytes \/ HeaderFromBytes

SpecHeader == InitHeader /\ [][NextHeader]_vars

---------------------------------------------------------------------------
(* find_match on its own, on every pair of short buffers                  *)

\* Longest lookback buffer find_match is given
MaxLookbackLen == 7

\* Longest read buffer find_match is given
MaxPendingLen == 4

\* The byte sequences of the lengths lo..hi over ShortAlphabet
ShortSeqs(lo, hi) == UNION {[1..n -> ShortAlphabet] : n \in lo..hi}

InitFindMatch ==
    /\ pc = "find_match"
    /\ overflow_checks \in BOOLEAN
    /\ panic = ""
    /\ files = Idle
    /\ enc = Idle
    /\ os = Idle
    /\ dec = Idle
    /\ script = Idle
    /\ trace = NoTrace
    /\ \E read_buffer \in ShortSeqs(1, MaxPendingLen),
          lookback_buffer \in ShortSeqs(0, MaxLookbackLen) :
        fn = [arg |-> [read_buffer |-> read_buffer, lookback_buffer |-> lookback_buffer],
              mid |-> None, ret |-> None]

\* find_match(&read_buffer, &lookback_buffer, false), as encode() calls it
FindMatch ==
    /\ pc = "find_match"
    /\ fn' = [fn EXCEPT !.ret = Some(find_match(fn.arg.read_buffer, fn.arg.lookback_buffer, FALSE))]
    /\ pc' = "find_match_done"
    /\ UNCHANGED <<overflow_checks, panic, files, enc, os, dec, script, trace>>

NextFindMatch == FindMatch

SpecFindMatch == InitFindMatch /\ [][NextFindMatch]_vars

---------------------------------------------------------------------------
(* build_tree on its own, on small frequency tables                       *)

\* Largest count of the enumerated frequency tables
MaxCount == 2

\* The bytes of the enumerated frequency tables
TableBytes == {0, 65, 255}

\* Every non-empty table over TableBytes with counts up to MaxCount, and
\* the tables of the header harness
BuildTables ==
    UNION {[S -> 1..MaxCount] : S \in (SUBSET TableBytes) \ {{}}} \cup StatsTables

InitBuildTree ==
    /\ pc = "build_tree"
    /\ overflow_checks \in BOOLEAN
    /\ panic = ""
    /\ files = Idle
    /\ enc = Idle
    /\ os = Idle
    /\ dec = Idle
    /\ script = Idle
    /\ trace = NoTrace
    /\ \E stats \in BuildTables : fn = [arg |-> stats, mid |-> None, ret |-> None]

\* build_tree(stats): some tree among those the order of the queue allows
BuildTree ==
    /\ pc = "build_tree"
    /\ \E tree \in build_tree(fn.arg) : fn' = [fn EXCEPT !.ret = Some(tree)]
    /\ pc' = "build_tree_done"
    /\ UNCHANGED <<overflow_checks, panic, files, enc, os, dec, script, trace>>

NextBuildTree == BuildTree

SpecBuildTree == InitBuildTree /\ [][NextBuildTree]_vars

---------------------------------------------------------------------------
(* tree_to_code_map on its own, on the trees of small tables and on deep  *)
(* trees                                                                  *)

\* Most leaves of the deep trees
MaxDepth == 65

\* The tree build_tree can return for a table of the bytes 1..n whose
\* counts grow as Fibonacci's numbers do (1, 1, 2, 3, 5, ...): the lowest
\* leaf is paired with the end node, and every merge takes the next leaf,
\* popped first, and the vertex of the merges before it; the end node is
\* n vertices below the root
DeepTreeNode(n) ==
    LET Merge(node, k) == new_vertex(Some(new_leaf(k)), Some(node))
    IN FoldRange(Merge, new_vertex(Some(new_leaf(1)), Some(new_end)), 2, n)

DeepTree(n) == [root_node |-> Some(DeepTreeNode(n))]

\* The trees given to tree_to_code_map
CodeMapTrees ==
    UNION {build_tree(stats) : stats \in BuildTables} \cup {DeepTree(n) : n \in 1..MaxDepth}

InitCodeMap ==
    /\ pc = "code_map"
    /\ overflow_checks \in BOOLEAN
    /\ panic = ""
    /\ files = Idle
    /\ enc = Idle
    /\ os = Idle
    /\ dec = Idle
    /\ script = Idle
    /\ trace = NoTrace
    /\ \E tree \in CodeMapTrees : fn = [arg |-> tree, mid |-> None, ret |-> None]

\* tree_to_code_map(tree)
CodeMapOfTree ==
    /\ pc = "code_map"
    /\ fn' = [fn EXCEPT !.ret = Some(tree_to_code_map(fn.arg))]
    /\ pc' = "code_map_done"
    /\ UNCHANGED <<overflow_checks, panic, files, enc, os, dec, script, trace>>

NextCodeMap == CodeMapOfTree

SpecCodeMap == InitCodeMap /\ [][NextCodeMap]_vars

---------------------------------------------------------------------------
(* The specifications of the program *)

NextDecode ==
    \/ DecodeOpen
    \/ DecodeStart
    \/ DecodeReadingHeaderLen
    \/ DecodeReadingHeader
    \/ DecodeExpectingMatchOrRawChunk
    \/ DecodeRawByteChunk
    \/ DecodeOffsetLenRead
    \/ DecodeEof

\* encode() on a file, then decode() on the container it wrote
Next ==
    \/ EncodeOpen
    \/ PopulateByteStats
    \/ CreateOutputStream
    \/ InitReadBuffer
    \/ EncodeLoop
    \/ EncodeFinalise
    \/ NextDecode

Spec == Init /\ [][Next]_vars

\* OutputStream driven by a script, then decode() on the container, which
\* may reach it truncated or with a byte changed
NextStream ==
    \/ StreamNew
    \/ StreamAdd
    \/ StreamFinalise
    \/ Truncate
    \/ Corrupt
    \/ NextDecode

SpecStream == InitStream /\ [][NextStream]_vars

---------------------------------------------------------------------------
(* Properties *)

\* C1: for every input, encode then decode on the container gives the
\* input back (no run panics, and the decoded file is the input)
C1_RoundTrip ==
    pc \in {"done", "panicked"} => files.decoded = Some(files.unencoded)

\* A round trip of a non-empty input that ends with other bytes than the input
C1_NonEmptyDiffers ==
    /\ pc = "done"
    /\ files.unencoded # <<>>
    /\ files.decoded # Some(files.unencoded)

\* C2: for every tree of build_tree and every sequence of coded bytes,
\* unpacking the packed sequence gives the sequence back
C2_PackRoundTrip ==
    pc = "huffman_done" => fn.ret = Some(fn.arg.input)

\* Unpacking gives more bytes than were packed: padding read as a literal
C2_PaddingUnpacked ==
    /\ pc = "huffman_done"
    /\ Len(Unwrap(fn.ret)) > Len(fn.arg.input)

\* The script is one run of literals, whose packed form takes n chunks
LiteralRunOfChunks(n) ==
    /\ ~trace.tampered
    /\ Len(trace.runs) = 1
    /\ trace.runs[1].buf = [i \in DOMAIN script |-> script[i][2]]
    /\ Len(Chunks(pack_to_u8(os.code_map, trace.runs[1].buf), ChunkMarker_MAX_VALUE)) = n

\* C3: a literal run written as several chunk records decodes to the
\* literal sequence, which is the unpacking of the payloads put together
C3_RunAcrossChunks ==
    (pc \in {"done", "panicked"} /\ \E n \in 2..3 : LiteralRunOfChunks(n))
        => /\ files.decoded = Some(trace.runs[1].buf)
           /\ files.decoded = Some(unpack_bytes(pack_to_u8(os.code_map, trace.runs[1].buf),
                                                Unwrap(trace.tree)))

\* A run of two chunks that decodes to other bytes than the unpacking of
\* its packed form
C3_RunDiffers ==
    /\ pc = "done"
    /\ LiteralRunOfChunks(2)
    /\ files.decoded # Some(unpack_bytes(pack_to_u8(os.code_map, trace.runs[1].buf),
                                         Unwrap(trace.tree)))

\* The chunk records in bytes, read from position pos on: [ok, payloads]
RECURSIVE ChunkPayloads(_, _)
ChunkPayloads(bytes, pos) ==
    IF pos > Len(bytes) THEN [ok |-> TRUE, payloads |-> <<>>]
    ELSE LET len == bytes[pos] % 64
             rest == ChunkPayloads(bytes, pos + 1 + len)
         IN IF bytes[pos] \div 64 # 3 \/ pos + len > Len(bytes) \/ ~rest.ok
            THEN [ok |-> FALSE, payloads |-> <<>>]
            ELSE [ok |-> TRUE,
                  payloads |-> <<SubSeq(bytes, pos + 1, pos + len)>> \o rest.payloads]

\* What the flush of run wrote is chunk records of 1 to 63 payload bytes
\* under markers 11 + length, whose payloads together are the packed run:
\* one record for 63 packed bytes, two for 64
RunRecords(run) ==
    LET packed == pack_to_u8(os.code_map, run.buf)
        records == ChunkPayloads(run.written, 1)
    IN /\ records.ok
       /\ \A k \in DOMAIN records.payloads : Len(records.payloads[k]) \in 1..63
       /\ Flatten(records.payloads) = packed
       /\ Len(packed) = 63 => Len(records.payloads) = 1
       /\ Len(packed) = 64 => Len(records.payloads) = 2
       /\ SubSeq(Unwrap(files.encoded), run.at + 1, run.at + Len(run.written)) = run.written

\* C4: every flushed literal run is written as chunk records of at most 63
\* payload bytes, each under the marker 11 + 6-bit length, whose payloads
\* in order are the packed run; 63 packed bytes make one record, 64 two
C4_ChunkRecords ==
    ~trace.tampered => \A k \in DOMAIN trace.runs : RunRecords(trace.runs[k])

\* A run of 64 packed bytes has been flushed
C4_SixtyFourBytes ==
    /\ ~trace.tampered
    /\ \E k \in DOMAIN trace.runs : Len(pack_to_u8(os.code_map, trace.runs[k].buf)) = 64

\* C5: to_bytes_new then of_bytes_new gives the offset and the len back, at
\* every byte-width boundary and just above it
C5_OffsetLenRoundTrip ==
    /\ pc # "panicked"
    /\ pc = "offset_len_done" =>
          /\ Unwrap(fn.ret).offset = fn.arg.offset
          /\ Unwrap(fn.ret).len = fn.arg.len

\* The round trip of offset 2^64 - 1 and len 2^56 is done
C5_WidestDone ==
    /\ pc = "offset_len_done"
    /\ fn.arg.offset = MaxU64
    /\ fn.arg.len = Successor(SIZES[7])

\* decode() is about to read the last byte of a match record; the
\* OffsetLen the record gives
RecordOffsetLen == of_bytes_new(Append(dec.offset_len_read_buffer, NextByte))

\* decode() is about to read the last byte of a match record whose
\* offset + len is more than the number of bytes in the window
MatchBeyondWindow ==
    /\ Reading("OffsetLenRead")
    /\ dec.decode_state[2] = 1
    /\ \/ AddOverflows(RecordOffsetLen.offset, RecordOffsetLen.len)
       \/ U64Less(U64FromNat(Len(dec.read_buffer)),
                  WrappingAdd(RecordOffsetLen.offset, RecordOffsetLen.len))

\* The panics of finalise_match: its own check of the range, the overflow
\* of the range end, the range VecDeque refuses
RangeOutOfBounds == {"decode.rs:177", "offset_len.rs:134", "decode.rs:184"}

\* C6: a match record whose offset + len is more than the bytes in the
\* window makes decode() fail in finalise_match: the window and all other
\* locals stay as they were, the run is over, no output is written
C6_MatchBeyondWindowRejected ==
    [][(MatchBeyondWindow /\ files' = files)
          => /\ pc' = "panicked"
             /\ panic' \in RangeOutOfBounds
             /\ dec' = dec
             /\ files'.decoded = None]_vars

\* decode() has refused a copy of more bytes than the window, which is not
\* empty, holds: a copy that would run into the bytes it writes
C6_OverlappingCopyRejected ==
    /\ pc = "panicked"
    /\ panic = "decode.rs:177"
    /\ Len(dec.read_buffer) > 0
    /\ dec.decode_state[1] = "OffsetLenRead"

\* C7: for a header of a tree of build_tree and any lookback length,
\* from_bytes of its to_bytes is the header, and neither panics
C7_HeaderRoundTrip ==
    /\ pc # "panicked"
    /\ pc = "header_done" => fn.ret = Some(Unwrap(fn.mid).header)

\* The round trip of a header with the lookback length 2^64 - 1 and a tree
\* with the byte 192 is done
C7_WideHeaderDone ==
    /\ pc = "header_done"
    /\ fn.arg.lookback_buffer_len = MaxU64
    /\ 192 \in DOMAIN fn.arg.stats

\* decode() has read all of the container
AtEndOfInput ==
    /\ pc = "decode"
    /\ dec.pos >= Len(Unwrap(files.encoded))

\* The panics of the final state match
TruncatedStream == {"decode.rs:132", "decode.rs:135", "decode.rs:144"}

\* C8, as amended: the end of the input is accepted in the states Start
\* (an empty container) and ExpectingMatchOrRawChunk, and the output is
\* then written; in every other state decode() fails and writes nothing
C8_EndOfInput ==
    [][AtEndOfInput
          => IF dec.decode_state[1] \in {"Start", "ExpectingMatchOrRawChunk"}
             THEN /\ pc' = "done"
                  /\ panic' = ""
                  /\ files'.decoded = Some(dec.output_buffer \o dec.read_buffer)
             ELSE /\ pc' = "panicked"
                  /\ panic' \in TruncatedStream
                  /\ files'.decoded = None]_vars

\* C8, as stated: the end of the input is accepted in the state
\* ExpectingMatchOrRawChunk only, so that an empty container is refused
C8_OnlyExpectingAccepts ==
    [][AtEndOfInput
          => IF dec.decode_state[1] = "ExpectingMatchOrRawChunk"
             THEN pc' = "done"
             ELSE pc' = "panicked" /\ files'.decoded = None]_vars

\* decode() has failed on a container that ends inside a chunk payload
C8_EndInsideChunk ==
    /\ pc = "panicked"
    /\ panic = "decode.rs:135"
    /\ dec.pos = Len(Unwrap(files.encoded))
    /\ dec.decode_state[1] = "RawByteChunk"

\* C9: where a record marker is expected, a byte whose two top bits are
\* neither 10 nor 11 makes decode() fail at once: the byte is not taken
\* for a marker and is not passed over
C9_UnknownRecordMarker ==
    [][(Reading("ExpectingMatchOrRawChunk") /\ NextByte < 128 /\ files' = files)
          => /\ pc' = "panicked"
             /\ panic' = "decode.rs:75"
             /\ dec' = dec
             /\ files'.decoded = None]_vars

\* decode() has failed on the byte 01000001 in the place of a marker
C9_UnknownMarkerRefused ==
    /\ pc = "panicked"
    /\ panic = "decode.rs:75"
    /\ NextByte = 65

\* The panics of decode()
DecodeFailures ==
    {"decode.rs:42", "decode.rs:46", "header.rs:58", "header.rs:63", "header.rs:69",
     "decode.rs:75", "decode.rs:85", "huffman.rs:209", "huffman.rs:213", "offset_len.rs:95"}
    \cup RangeOutOfBounds \cup TruncatedStream

\* C10: a decode() that has failed has written no decoded output, and the
\* decoded output is there only when decode() has read all of the
\* container and has let the final state pass
C10_NoOutputOnFailure ==
    /\ (pc = "panicked" /\ panic \in DecodeFailures) => files.decoded = None
    /\ files.decoded # None =>
          /\ pc = "done"
          /\ dec.pos = Len(Unwrap(files.encoded))
          /\ FinalStatePanic(dec.decode_state) = ""

\* decode() has failed on a header whose tree cannot be read, with bytes
\* of the container still unread
C10_MalformedHeaderFailed ==
    /\ pc = "panicked"
    /\ panic = "header.rs:69"
    /\ files.decoded = None

\* find_match has returned: its result
FindMatchResult == Unwrap(fn.ret)

\* C11: a match find_match returns starts at an offset below the length
\* of the lookback buffer, never in the read buffer, and all of its bytes
\* are bytes of the lookback buffer
C11_MatchStartsInLookback ==
    (pc = "find_match_done" /\ FindMatchResult[1] = "OffsetLen")
        => /\ U64ToNat(FindMatchResult[2].offset) < Len(fn.arg.lookback_buffer)
           /\ U64ToNat(FindMatchResult[2].offset) + U64ToNat(FindMatchResult[2].len)
                  <= Len(fn.arg.lookback_buffer)

\* find_match has returned a match that ends with the last byte of the
\* lookback buffer, where the read buffer goes on with the byte it starts
\* with: a match from the read buffer on itself would be longer
C11_MatchUpToPending ==
    /\ pc = "find_match_done"
    /\ FindMatchResult[1] = "OffsetLen"
    /\ U64ToNat(FindMatchResult[2].offset) + U64ToNat(FindMatchResult[2].len)
           = Len(fn.arg.lookback_buffer)
    /\ Len(fn.arg.read_buffer) > U64ToNat(FindMatchResult[2].len)
    /\ fn.arg.read_buffer[U64ToNat(FindMatchResult[2].len) + 1] = fn.arg.read_buffer[1]

\* The n bytes of the lookback buffer from offset on are the first n bytes
\* of the read buffer
OccursAt(offset, n) ==
    /\ n <= Len(fn.arg.read_buffer)
    /\ offset + n <= Len(fn.arg.lookback_buffer)
    /\ SubSeq(fn.arg.lookback_buffer, offset + 1, offset + n) = SubSeq(fn.arg.read_buffer, 1, n)

\* C12: find_match returns an OffsetLen only for a match of at least
\* MIN_MATCH_SIZE bytes, which are then the bytes at that offset; when the
\* lookback buffer has no match for the start of the read buffer, or the
\* best match is shorter than MIN_MATCH_SIZE, it returns the literal at
\* the front of the read buffer
C12_ShortMatchIsLiteral ==
    pc = "find_match_done" =>
        LET best_match == BestMatch(fn.arg.read_buffer, fn.arg.lookback_buffer, FALSE)
        IN /\ FindMatchResult[1] = "OffsetLen" =>
                 /\ U64ToNat(FindMatchResult[2].len) >= 3
                 /\ OccursAt(U64ToNat(FindMatchResult[2].offset), U64ToNat(FindMatchResult[2].len))
                 /\ FindMatchResult[2].matched_bytes
                        = Some(SubSeq(fn.arg.read_buffer, 1, U64ToNat(FindMatchResult[2].len)))
           /\ (\A offset \in 0..Len(fn.arg.lookback_buffer) : ~OccursAt(offset, 3))
                 => FindMatchResult = RawU8(Head(fn.arg.read_buffer))
           /\ (~IsSome(best_match) \/ Len(Unwrap(best_match)[2]) < 3)
                 => FindMatchResult = RawU8(Head(fn.arg.read_buffer))

\* find_match has returned a literal where the lookback buffer has the
\* first two bytes of the read buffer, and not the first three
C12_TwoByteMatchDegraded ==
    /\ pc = "find_match_done"
    /\ FindMatchResult = RawU8(Head(fn.arg.read_buffer))
    /\ Len(fn.arg.read_buffer) >= 3
    /\ \E offset \in 0..Len(fn.arg.lookback_buffer) : OccursAt(offset, 2)
    /\ \A offset \in 0..Len(fn.arg.lookback_buffer) : ~OccursAt(offset, 3)

\* The smallest w in 1..8 with v <= 2^(8w) - 1: no bit set above the low 8w
MinimalWidth(v) ==
    CHOOSE w \in 1..8 :
        /\ \A i \in 1..(64 - 8 * w) : v[i] = 0
        /\ w > 1 => \E i \in 1..(64 - 8 * (w - 1)) : v[i] = 1

\* The w low bytes of v, the least significant first
LowBytesFirst(v, w) == [k \in 1..w |-> ByteOfBits(SubSeq(v, 65 - 8 * k, 72 - 8 * k))]

\* C13: to_bytes_new writes a first byte 10aaabbb, aaa the minimal width
\* of the offset less one and bbb that of the len, then the offset bytes
\* and the len bytes, each least significant byte first: 1 + offset width
\* + len width bytes, and read_header_byte of the first gives the widths
C13_RecordLayout ==
    pc \in {"offset_len_bytes", "offset_len_done"} =>
        LET bytes == Unwrap(fn.mid)
            offset_width == MinimalWidth(fn.arg.offset)
            len_width == MinimalWidth(fn.arg.len)
        IN /\ Len(bytes) = 1 + offset_width + len_width
           /\ bytes[1] \div 64 = 2
           /\ (bytes[1] \div 8) % 8 = offset_width - 1
           /\ bytes[1] % 8 = len_width - 1
           /\ SubSeq(bytes, 2, 1 + offset_width) = LowBytesFirst(fn.arg.offset, offset_width)
           /\ SubSeq(bytes, 2 + offset_width, Len(bytes)) = LowBytesFirst(fn.arg.len, len_width)
           /\ read_header_byte(bytes[1]) = <<offset_width, len_width>>

\* to_bytes_new has written the offset 2^8 in two bytes and the len
\* 2^24 - 1 in three: the record 10001010, 0, 1, 255, 255, 255
C13_MixedWidthsWritten ==
    /\ pc = "offset_len_bytes"
    /\ fn.arg.offset = Successor(SIZES[1])
    /\ fn.arg.len = SIZES[3]
    /\ Unwrap(fn.mid) = <<138, 0, 1, 255, 255, 255>>

\* The records written after the header
Records ==
    SubSeq(Unwrap(files.encoded),
           Len(to_bytes(HeaderNew(Unwrap(trace.tree), U64FromNat(MAX_LOOKBACK_BUFFER_LEN)))) + 1,
           Len(Unwrap(files.encoded)))

\* The chunk records of a run of literals, none for the empty run
RunRecordsOf(run) == IF run = <<>> THEN <<>> ELSE end_chunk(os.code_map, run)

\* What the calls add(values[i]), add(values[i + 1]), ... must put into the
\* sink, in this order, when run is the literals buffered before them:
\* [sink, run], run the literals buffered after them
RECURSIVE SinkOf(_, _, _)
SinkOf(values, i, run) ==
    IF i > Len(values) THEN [sink |-> <<>>, run |-> run]
    ELSE IF values[i][1] = "RawU8" THEN SinkOf(values, i + 1, Append(run, values[i][2]))
    ELSE LET rest == SinkOf(values, i + 1, <<>>)
         IN [sink |-> RunRecordsOf(run) \o to_bytes_new(values[i][2]) \o rest.sink,
             run |-> rest.run]

\* C14: the sink holds the records in the order of the calls of add: for
\* each match, the chunk records of the literals added since the match
\* before it, then the match record as to_bytes_new gives it; literals
\* added after the last match are in the buffer, and in no record, until
\* finalise writes their chunk records
C14_RecordsInCallOrder ==
    pc \in {"stream_add", "encoded"} =>
        LET expected == SinkOf(trace.values, 1, <<>>)
        IN IF pc = "encoded"
           THEN Records = expected.sink \o RunRecordsOf(expected.run)
           ELSE Records = expected.sink /\ os.buf = expected.run

\* add has written a match record after the chunk record of two literals,
\* with a literal added after the match in the buffer
C14_MatchAfterLiterals ==
    /\ pc = "stream_add"
    /\ script = MixedScript
    /\ Len(trace.values) = 4
    /\ os.buf = <<2>>
    /\ Len(trace.runs) = 1

\* The bits of a code, the first to be written first
CodeBitsOf(bits) == [i \in 1..bits.bit_size |-> bits.set_bits[64 - bits.bit_size + i]]

\* The packed form of a run of literals: the bits of their codes in
\* order, then the bits of the end code, then zero bits up to a whole byte
PackedWithEndCode(code_map, run) ==
    LET bits == Flatten([i \in 1..Len(run) |-> CodeBitsOf(code_map.codes[run[i]])])
                    \o CodeBitsOf(Unwrap(code_map.end_code))
    IN [k \in 1..((Len(bits) + 7) \div 8) |->
           ByteOfBits([j \in 1..8 |-> IF 8 * (k - 1) + j <= Len(bits)
                                      THEN bits[8 * (k - 1) + j] ELSE 0])]

\* The literals among values, in order
LiteralsOf(values) ==
    Flatten([i \in 1..Len(values) |-> IF values[i][1] = "RawU8" THEN <<values[i][2]>> ELSE <<>>])

\* C15: after the calls of add and finalise the buffer is empty and the
\* literals added are, in order, those of the flushed runs, each written
\* to the sink; a run whose packed form, end code included, is at most 63
\* bytes is written as one marker 11 + length and that packed form; a
\* finalise with nothing buffered writes no record
C15_FinaliseFlushes ==
    pc = "encoded" =>
        /\ os.buf = <<>>
        /\ Flatten([k \in DOMAIN trace.runs |-> trace.runs[k].buf]) = LiteralsOf(trace.values)
        /\ \A k \in DOMAIN trace.runs :
              LET run == trace.runs[k]
                  packed == PackedWithEndCode(os.code_map, run.buf)
              IN /\ SubSeq(Unwrap(files.encoded), run.at + 1, run.at + Len(run.written)) = run.written
                 /\ Len(packed) <= 63 => run.written = <<192 + Len(packed)>> \o packed
        /\ trace.values = <<>> => Records = <<>>
        /\ (trace.values # <<>> /\ trace.values[Len(trace.values)][1] = "OffsetLen")
              => Records = SinkOf(trace.values, 1, <<>>).sink

\* finalise has written, for a run of literals whose codes leave fewer
\* bits in the accumulator than the end code has, a record that is not
\* the packed form with the end code
C15_EndCodeNotWritten ==
    /\ pc = "encoded"
    /\ script \in AccumulatorRuns
    /\ Len(trace.runs) = 1
    /\ trace.runs[1].buf = LiteralsOf(script)
    /\ LET packed == PackedWithEndCode(os.code_map, trace.runs[1].buf)
       IN /\ Len(packed) <= 63
          /\ trace.runs[1].written # <<192 + Len(packed)>> \o packed

\* The nodes without children of the tree under node, from left to right
RECURSIVE LeavesOf(_)
LeavesOf(node) ==
    IF ~IsSome(node.left) /\ ~IsSome(node.right) THEN <<node>>
    ELSE (IF IsSome(node.left) THEN LeavesOf(Unwrap(node.left)) ELSE <<>>)
         \o (IF IsSome(node.right) THEN LeavesOf(Unwrap(node.right)) ELSE <<>>)

\* C16: the tree build_tree returns for a non-empty table has one end
\* leaf and no more, one leaf for each byte of the table and for no other
\* byte, and so at least two leaves, the table of one byte included
C16_TreeLeaves ==
    pc = "build_tree_done" =>
        LET leaves == LeavesOf(Unwrap(Unwrap(fn.ret).root_node))
        IN /\ Cardinality({i \in DOMAIN leaves : leaves[i].is_end_node}) = 1
           /\ \A i \in DOMAIN leaves : leaves[i].is_end_node => ~IsSome(leaves[i].value)
           /\ \A i \in DOMAIN leaves : ~leaves[i].is_end_node => IsSome(leaves[i].value)
           /\ \A b \in DOMAIN fn.arg :
                 Cardinality({i \in DOMAIN leaves : leaves[i].value = Some(b)}) = 1
           /\ \A i \in DOMAIN leaves :
                 IsSome(leaves[i].value) => Unwrap(leaves[i].value) \in DOMAIN fn.arg
           /\ Len(leaves) = Cardinality(DOMAIN fn.arg) + 1
           /\ Len(leaves) >= 2

\* build_tree has returned, for a table of the one byte 255, the tree of
\* a root with the leaf 255 and the end leaf
C16_SingleByteTree ==
    /\ pc = "build_tree_done"
    /\ DOMAIN fn.arg = {255}
    /\ Unwrap(fn.ret).root_node = Some(new_vertex(Some(new_leaf(255)), Some(new_end)))

\* The container encode() writes, and the length its first two bytes declare
Container == Unwrap(files.encoded)

DeclaredLen == Container[1] * 256 + Container[2]

\* C17: from create_output_stream on, the container of encode() starts
\* with the header: two bytes that give, high byte first, the number of
\* header bytes with these two counted, eight bytes that give the lookback
\* length (128) high byte first, then the serialized tree, and nothing
\* else until the first record; before, the container is empty
C17_HeaderFirst ==
    /\ pc \in {"populate_byte_stats", "create_output_stream"} => Container = <<>>
    /\ IsSome(trace.tree) =>
          /\ Len(Container) >= 10
          /\ DeclaredLen = 2 + 8 + Len(SerTree(Unwrap(trace.tree)))
          /\ DeclaredLen <= Len(Container)
          /\ SubSeq(Container, 3, 10) = <<0, 0, 0, 0, 0, 0, 0, 128>>
          /\ SubSeq(Container, 11, DeclaredLen) = SerTree(Unwrap(trace.tree))
          /\ ParseTree(SubSeq(Container, 11, DeclaredLen)).val = Unwrap(trace.tree)
          /\ pc = "init_read_buffer" => Len(Container) = DeclaredLen
          /\ \A k \in DOMAIN trace.runs : trace.runs[k].at >= DeclaredLen

\* create_output_stream has written the 64 header bytes of the test
\* string's tree, declared in the first two, and no other byte
C17_TestHeaderWritten ==
    /\ pc = "init_read_buffer"
    /\ files.unencoded = WikiSample
    /\ Container[1] = 0
    /\ Container[2] = 64
    /\ Len(Container) = 64

\* decode() takes a step on the byte v = NextByte in the state name
DecodeStepIn(name) == Reading(name) /\ files' = files

\* All the bytes decoded so far, those moved out of the window included
Decoded(d) == d.output_buffer \o d.read_buffer

\* C18: on a marker 11 + length L decode() collects the next L bytes, no
\* more and no fewer, unpacks them onto the end of the window and expects
\* a record marker again; with L = 0 it takes no byte as payload: the byte
\* after the marker is read as a record marker
C18_ChunkPayload ==
    [][/\ (DecodeStepIn("ExpectingMatchOrRawChunk") /\ NextByte >= 192)
            => /\ pc' = "decode"
               /\ dec'.pos = dec.pos + 1
               /\ Decoded(dec') = Decoded(dec)
               /\ dec'.raw_byte_buffer = <<>>
               /\ dec'.decode_state = IF NextByte % 64 = 0
                                      THEN <<"ExpectingMatchOrRawChunk", 0>>
                                      ELSE <<"RawByteChunk", NextByte % 64>>
       /\ DecodeStepIn("RawByteChunk")
            => /\ Container[dec.pos - Len(dec.raw_byte_buffer)] >= 192
               /\ Len(dec.raw_byte_buffer) + dec.decode_state[2]
                      = Container[dec.pos - Len(dec.raw_byte_buffer)] % 64
               /\ dec.decode_state[2] > 1
                    => /\ pc' = "decode"
                       /\ dec'.decode_state = <<"RawByteChunk", dec.decode_state[2] - 1>>
                       /\ dec'.raw_byte_buffer = Append(dec.raw_byte_buffer, NextByte)
                       /\ Decoded(dec') = Decoded(dec)
               /\ (dec.decode_state[2] = 1 /\ panic' = "")
                    => /\ pc' = "decode"
                       /\ dec'.decode_state = <<"ExpectingMatchOrRawChunk", 0>>
                       /\ dec'.raw_byte_buffer = <<>>
                       /\ Decoded(dec') =
                              Decoded(dec) \o unpack_bytes(Append(dec.raw_byte_buffer, NextByte),
                                                           Unwrap(dec.header).huffman_tree)]_vars

\* decode() has taken the byte after a marker 11 + length 0 as a payload
\* byte and waits for 255 more
C18_EmptyChunkTakesPayload ==
    /\ pc = "decode"
    /\ dec.decode_state = <<"RawByteChunk", 255>>
    /\ Len(dec.raw_byte_buffer) = 1
    /\ Container[dec.pos - 1] = 192

\* The number the bytes give, the least significant first, when it is
\* below 2^16; 2^16 (more than any window holds) when it is not
SmallValueOf(bytes) ==
    IF \E k \in 3..Len(bytes) : bytes[k] # 0 THEN 65536
    ELSE bytes[1] + (IF Len(bytes) >= 2 THEN 256 * bytes[2] ELSE 0)

\* The widths a match marker announces: bits 5-3 and bits 2-0, plus one
OffsetWidth(marker) == ((marker \div 8) % 8) + 1

LenWidth(marker) == (marker % 8) + 1

\* C19: on a marker 10aaabbb decode() collects the next aaa + 1 + bbb + 1
\* bytes, no more and no fewer; with the last of them, when offset + len
\* is within the window, it appends the len bytes the window has from
\* position offset (counted from its front) on, keeps all bytes decoded
\* before as they are, and expects a record marker again
C19_MatchCopy ==
    [][/\ (DecodeStepIn("ExpectingMatchOrRawChunk") /\ NextByte \in 128..191)
            => /\ pc' = "decode"
               /\ dec'.pos = dec.pos + 1
               /\ Decoded(dec') = Decoded(dec)
               /\ dec'.offset_len_read_buffer = <<NextByte>>
               /\ dec'.decode_state = <<"OffsetLenRead", OffsetWidth(NextByte) + LenWidth(NextByte)>>
       /\ DecodeStepIn("OffsetLenRead")
            => LET record == Append(dec.offset_len_read_buffer, NextByte)
                   marker == record[1]
                   offset == SmallValueOf(SubSeq(record, 2, 1 + OffsetWidth(marker)))
                   len == SmallValueOf(SubSeq(record, 2 + OffsetWidth(marker), Len(record)))
               IN /\ marker \in 128..191
                  /\ record = SubSeq(Container, dec.pos + 2 - Len(record), dec.pos + 1)
                  /\ Len(record) - 1 + dec.decode_state[2] - 1
                         = OffsetWidth(marker) + LenWidth(marker)
                  /\ dec.decode_state[2] > 1
                       => /\ pc' = "decode"
                          /\ dec'.decode_state = <<"OffsetLenRead", dec.decode_state[2] - 1>>
                          /\ dec'.offset_len_read_buffer = record
                          /\ Decoded(dec') = Decoded(dec)
                  /\ (dec.decode_state[2] = 1 /\ offset + len <= Len(dec.read_buffer))
                       => /\ pc' = "decode"
                          /\ panic' = ""
                          /\ dec'.decode_state = <<"ExpectingMatchOrRawChunk", 0>>
                          /\ Decoded(dec') =
                                 Decoded(dec) \o SubSeq(dec.read_buffer, offset + 1, offset + len)]_vars

\* decode() has copied the two bytes 2, 4 at offset 1 of the window
\* 4, 2, 4, 2, 2 to its end
C19_CopiedFromFront ==
    /\ pc = "decode"
    /\ script = MixedScript
    /\ dec.decode_state[1] = "ExpectingMatchOrRawChunk"
    /\ dec.offset_len_read_buffer = <<128, 1, 2>>
    /\ dec.read_buffer = <<4, 2, 4, 2, 2, 2, 4>>

\* The panics of decode() on a header it cannot take: the length below 2,
\* no byte to collect, fewer bytes than declared, fewer than the fixed
\* ten, a tree that does not deserialize, and the end of the input in
\* the header
MalformedHeader ==
    {"decode.rs:42", "decode.rs:46", "header.rs:58", "header.rs:63", "header.rs:69",
     "decode.rs:132"}

\* The first DeclaredLen bytes of the container are a header: the fixed
\* ten bytes and a tree that deserializes
ValidHeaderDeclared ==
    /\ Len(Container) >= 2
    /\ DeclaredLen >= 10
    /\ DeclaredLen <= Len(Container)
    /\ ParseTree(SubSeq(Container, 11, DeclaredLen)).ok

\* decode() is past the header: it reads records
ReadingRecords ==
    /\ pc \in {"decode", "done", "panicked"}
    /\ dec # Idle
    /\ dec.decode_state[1] \in {"ExpectingMatchOrRawChunk", "RawByteChunk", "OffsetLenRead"}

\* C20: decode() takes the first two bytes as the header length N, high
\* byte first, collects N - 2 more bytes and parses the N bytes as the
\* header before it reads any byte as a record marker; when N is below
\* the ten fixed bytes (0, 1 and 2 among them) or the tree bytes do not
\* deserialize, it fails on the header and never expects a record marker
C20_HeaderBeforeRecords ==
    /\ [](ReadingRecords
            => /\ ValidHeaderDeclared
               /\ dec.pos >= DeclaredLen
               /\ dec.header_buffer = SubSeq(Container, 1, DeclaredLen)
               /\ dec.header = Some([huffman_tree |-> ParseTree(SubSeq(Container, 11, DeclaredLen)).val,
                                      lookback_buffer_len |-> from_be_bytes(SubSeq(Container, 3, 10))]))
    /\ []((pc = "decode" /\ dec.decode_state[1] = "ReadingHeader" /\ dec.decode_state[2] > 0)
            => /\ dec.header_buffer = SubSeq(Container, 1, dec.pos)
               /\ dec.pos + dec.decode_state[2] = DeclaredLen)
    /\ [][(DecodeStepIn("ReadingHeader") /\ dec.decode_state[2] = 1)
            => IF ValidHeaderDeclared
               THEN /\ pc' = "decode"
                    /\ dec'.pos = DeclaredLen
                    /\ dec'.decode_state = <<"ExpectingMatchOrRawChunk", 0>>
               ELSE pc' = "panicked" /\ panic' \in MalformedHeader]_vars
    /\ []((pc \in {"done", "panicked"} /\ dec # Idle /\ ~ValidHeaderDeclared /\ Container # <<>>)
            => /\ pc = "panicked"
               /\ panic \in MalformedHeader
               /\ files.decoded = None)

\* decode() has failed on a header whose declared length is 2: the byte
\* after the length is no record marker to it
C20_LengthTwoRejected ==
    /\ pc = "panicked"
    /\ panic \in MalformedHeader
    /\ Len(Container) > 2
    /\ DeclaredLen = 2
    /\ dec.decode_state[1] = "ReadingHeader"


\* s is the front of t
IsPrefix(s, t) == Len(s) <= Len(t) /\ SubSeq(t, 1, Len(s)) = s

\* C21: after each byte decode() has processed the window holds at most
\* MAX_LOOKBACK_BUFFER_LEN bytes; a turn of the loop only appends to the
\* output buffer, and to the output buffer followed by the window, and it
\* moves bytes to the output buffer only from a window that is full after
\* it; the bytes written at the end are the output buffer followed by the
\* window
C21_WindowAndOutput ==
    /\ []((pc \in {"decode", "done", "panicked"} /\ dec # Idle)
            => Len(dec.read_buffer) <= MAX_LOOKBACK_BUFFER_LEN)
    /\ [][(pc = "decode" /\ dec' # dec)
            => /\ IsPrefix(dec.output_buffer, dec'.output_buffer)
               /\ IsPrefix(Decoded(dec), Decoded(dec'))
               /\ (dec'.output_buffer # dec.output_buffer
                      => Len(dec'.read_buffer) = MAX_LOOKBACK_BUFFER_LEN)]_vars
    /\ [][(pc = "decode" /\ pc' = "done")
            => (dec' = dec /\ files'.decoded = Some(Decoded(dec)))]_vars

\* decode() has ended with bytes in the output buffer and a full window
C21_WindowTrimmed ==
    /\ pc = "done"
    /\ dec.output_buffer # <<>>
    /\ Len(dec.read_buffer) = MAX_LOOKBACK_BUFFER_LEN
    /\ files.decoded = Some(Decoded(dec))


\* The lookback length the header decode() has parsed declares
DeclaredLookbackLen == U64ToNat(Unwrap(dec.header).lookback_buffer_len)

\* C22: decode() trims its window to the lookback length the header of
\* the container declares: once the header is parsed the window holds at
\* most that many bytes after each processed byte
C22_WindowOfHeaderLen ==
    (pc \in {"decode", "done"} /\ dec # Idle /\ IsSome(dec.header))
        => Len(dec.read_buffer) <= DeclaredLookbackLen

\* The header declares a lookback of ShortLookbackLen bytes and the
\* window decode() resolves the next match in holds more: the four bytes
\* 4, 2, 4, 2 of the mixed script, of which the declared window holds the
\* last two
C22_WindowBeyondHeaderLen ==
    /\ pc = "decode"
    /\ dec # Idle /\ IsSome(dec.header)
    /\ DeclaredLookbackLen = ShortLookbackLen
    /\ dec.read_buffer = <<4, 2, 4, 2>>
    /\ dec.output_buffer = <<>>


\* encode() takes a turn of its loop, and the value find_match gives in it
EncodeTurn == pc = "encode_loop" /\ enc.read_buffer # <<>>

FoundValue == find_match(enc.read_buffer, enc.lookback_buffer, FALSE)

\* C23: a match encode() emits lies within its lookback buffer, of at
\* most MAX_LOOKBACK_BUFFER_LEN bytes, and is no longer than its read
\* buffer; and when decode() has read its record from the container as
\* encode() wrote it, offset + len is at most the number of bytes in the
\* window, so that finalise_match copies
C23_MatchWithinWindow ==
    /\ [][(EncodeTurn /\ FoundValue[1] = "OffsetLen")
            => /\ trace'.values = Append(trace.values, FoundValue)
               /\ U64ToNat(FoundValue[2].offset) + U64ToNat(FoundValue[2].len)
                      <= Len(enc.lookback_buffer)
               /\ Len(enc.lookback_buffer) <= MAX_LOOKBACK_BUFFER_LEN
               /\ U64ToNat(FoundValue[2].len) <= Len(enc.read_buffer)]_vars
    /\ [][(~trace.tampered /\ DecodeStepIn("OffsetLenRead") /\ dec.decode_state[2] = 1)
            => /\ ~MatchBeyondWindow
               /\ panic' = ""
               /\ pc' = "decode"]_vars

\* decode() has refused the first match of encode() on SplitRunSample,
\* the three bytes at offset 125 of a lookback buffer of 128 bytes: its
\* window holds 126 bytes
C23_EncoderMatchRejected ==
    /\ pc = "panicked"
    /\ panic = "decode.rs:177"
    /\ ~trace.tampered
    /\ files.unencoded = SplitRunSample
    /\ Len(Decoded(dec)) = 126
    /\ dec.offset_len_read_buffer = <<128, 125>>
    /\ NextByte = 3
    /\ \E k \in DOMAIN trace.values :
          /\ trace.values[k][1] = "OffsetLen"
          /\ U64ToNat(trace.values[k][2].offset) = 125
          /\ \A j \in 1..(k - 1) : trace.values[j][1] = "RawU8"
          /\ k = 129


\* decode() is about to read the last byte of a match record of the
\* container as it was written, and the place of that record in the
\* history of the matches
ResolvingMatch ==
    /\ Reading("OffsetLenRead")
    /\ dec.decode_state[2] = 1
    /\ ~trace.tampered

MatchResolved ==
    CHOOSE k \in DOMAIN trace.matches :
        trace.matches[k].at = dec.pos - Len(dec.offset_len_read_buffer)

\* C24: when decode() resolves a match record of encode(), its window
\* holds the bytes the lookback buffer of encode() held when find_match
\* gave that match
C24_WindowIsLookback ==
    (ResolvingMatch /\ enc # Idle)
        => /\ \E k \in DOMAIN trace.matches :
                  trace.matches[k].at = dec.pos - Len(dec.offset_len_read_buffer)
           /\ dec.read_buffer = trace.matches[MatchResolved].lookback_buffer

\* decode() resolves the match of PaddedRunSample, four bytes at offset
\* 14 of the 26 bytes before it, in a window of those 26 bytes and one
\* more, a byte 1 that is not in the input there
C24_WindowWithPadding ==
    /\ ResolvingMatch
    /\ files.unencoded = PaddedRunSample
    /\ Len(trace.matches) = 1
    /\ trace.matches[1].lookback_buffer = SubSeq(PaddedRunSample, 1, 26)
    /\ dec.read_buffer = Append(SubSeq(PaddedRunSample, 1, 26), 1)


\* The length of the longest run of the lookback buffer, from any offset,
\* that is the start of the read buffer
LongestRun ==
    CHOOSE n \in 0..Len(fn.arg.read_buffer) :
        /\ \E offset \in 0..Len(fn.arg.lookback_buffer) : OccursAt(offset, n)
        /\ \A m \in (n + 1)..Len(fn.arg.read_buffer) :
              \A offset \in 0..Len(fn.arg.lookback_buffer) : ~OccursAt(offset, m)

\* The length of the best match find_match's loop ends with
BestMatchLen ==
    LET best_match == BestMatch(fn.arg.read_buffer, fn.arg.lookback_buffer, FALSE)
    IN IF IsSome(best_match) THEN Len(Unwrap(best_match)[2]) ELSE 0

\* C25: the best match find_match's loop ends with is as long as the
\* longest run of the lookback buffer, from any offset, that is the start
\* of the read buffer; so a run of at least MIN_MATCH_SIZE bytes gives a
\* match of its length
C25_LongestRunFound ==
    pc = "find_match_done" =>
        /\ BestMatchLen = LongestRun
        /\ LongestRun >= MIN_MATCH_SIZE =>
              /\ FindMatchResult[1] = "OffsetLen"
              /\ U64ToNat(FindMatchResult[2].len) = LongestRun

\* find_match has returned a literal for the read buffer 65, 65, 66 where
\* the lookback buffer 65, 65, 65, 66 has these three bytes at offset 1:
\* its scan has taken the bytes at offsets 0 and 1 as the start of a match
\* and has not come back to offset 1 when the byte at offset 2 differed
C25_RunFromSecondByteMissed ==
    /\ pc = "find_match_done"
    /\ fn.arg.lookback_buffer = <<65, 65, 65, 66>>
    /\ fn.arg.read_buffer = <<65, 65, 66>>
    /\ FindMatchResult = RawU8(65)
    /\ BestMatchLen = 2
    /\ OccursAt(1, 3)


\* The best match find_match's loop has after the first j bytes of the
\* lookback buffer
BestMatchAfter(j) == BestMatch(fn.arg.read_buffer, SubSeq(fn.arg.lookback_buffer, 1, j), FALSE)

\* C26: of the runs of the lookback buffer that are as long as the best
\* match, find_match reports the one at the smallest offset; and in the
\* course of its loop a best match gives way only to a longer one
C26_FirstOfLongestRuns ==
    pc = "find_match_done" =>
        /\ \A j \in 1..Len(fn.arg.lookback_buffer) :
              BestMatchAfter(j) # BestMatchAfter(j - 1)
                  => /\ IsSome(BestMatchAfter(j))
                     /\ IsSome(BestMatchAfter(j - 1))
                          => Len(Unwrap(BestMatchAfter(j))[2]) > Len(Unwrap(BestMatchAfter(j - 1))[2])
        /\ FindMatchResult[1] = "OffsetLen"
              => \A offset \in 0..Len(fn.arg.lookback_buffer) :
                    OccursAt(offset, U64ToNat(FindMatchResult[2].len))
                        => U64ToNat(FindMatchResult[2].offset) <= offset

\* find_match has returned the match of three bytes at offset 4 where
\* the lookback buffer has the same three bytes at offset 1 as well
C26_LaterRunReported ==
    /\ pc = "find_match_done"
    /\ fn.arg.lookback_buffer = <<65, 65, 65, 66, 65, 65, 66>>
    /\ fn.arg.read_buffer = <<65, 65, 66>>
    /\ FindMatchResult[1] = "OffsetLen"
    /\ U64ToNat(FindMatchResult[2].offset) = 4
    /\ U64ToNat(FindMatchResult[2].len) = 3
    /\ OccursAt(1, 3)
    /\ LongestRun = 3


\* C27: an OffsetLen find_match returns is a match: each of its len
\* bytes, the k-th of the read buffer, is the byte of the lookback buffer
\* at offset + k
C27_MatchGenuine ==
    (pc = "find_match_done" /\ FindMatchResult[1] = "OffsetLen")
        => \A k \in 0..(U64ToNat(FindMatchResult[2].len) - 1) :
              /\ U64ToNat(FindMatchResult[2].offset) + k < Len(fn.arg.lookback_buffer)
              /\ k < Len(fn.arg.read_buffer)
              /\ fn.arg.lookback_buffer[U64ToNat(FindMatchResult[2].offset) + k + 1]
                     = fn.arg.read_buffer[k + 1]

\* find_match has returned a match of four bytes found after bytes of
\* the lookback buffer that differ from the read buffer
C27_MatchAfterMismatch ==
    /\ pc = "find_match_done"
    /\ FindMatchResult[1] = "OffsetLen"
    /\ fn.arg.lookback_buffer = <<65, 66, 65, 65, 66, 66, 65>>
    /\ fn.arg.read_buffer = <<65, 66, 66, 65>>
    /\ U64ToNat(FindMatchResult[2].offset) = 3
    /\ U64ToNat(FindMatchResult[2].len) = 4


\* The last n bytes of s, all of s when it has no more
LastBytes(s, n) == SubSeq(s, Len(s) - Min(n, Len(s)) + 1, Len(s))

\* The number of input bytes that have left encode()'s read buffer
Consumed == enc.pos - Len(enc.read_buffer)

\* The number of bytes the value find_match gives stands for
StepSize == IF FoundValue[1] = "RawU8" THEN 1 ELSE U64ToNat(FoundValue[2].len)

\* C28: in encode()'s loop the read buffer holds at most
\* MAX_READ_BUFFER_LEN bytes and the lookback buffer at most
\* MAX_LOOKBACK_BUFFER_LEN; the lookback buffer followed by the read
\* buffer is the part of the input that ends where the reader stands,
\* the lookback buffer the last bytes that have left the read buffer; a
\* turn of the loop moves the bytes of its value, in order, from the
\* front of the read buffer to the end of the lookback buffer and reads
\* as many on; after the loop all of the input has gone this way
C28_SlidingWindows ==
    /\ [](pc = "encode_loop"
            => /\ Len(enc.read_buffer) <= MAX_READ_BUFFER_LEN
               /\ Len(enc.lookback_buffer) <= MAX_LOOKBACK_BUFFER_LEN
               /\ enc.pos <= Len(files.unencoded)
               /\ enc.read_buffer = SubSeq(files.unencoded, Consumed + 1, enc.pos)
               /\ enc.lookback_buffer
                      = LastBytes(SubSeq(files.unencoded, 1, Consumed), MAX_LOOKBACK_BUFFER_LEN)
               /\ Len(enc.read_buffer) = Min(MAX_READ_BUFFER_LEN, Len(files.unencoded) - Consumed))
    /\ [][(EncodeTurn /\ pc' = "encode_loop")
            => /\ StepSize <= Len(enc.read_buffer)
               /\ enc'.lookback_buffer
                      = LastBytes(enc.lookback_buffer \o SubSeq(enc.read_buffer, 1, StepSize),
                                  MAX_LOOKBACK_BUFFER_LEN)
               /\ enc'.pos = Min(enc.pos + StepSize, Len(files.unencoded))
               /\ enc'.read_buffer
                      = SubSeq(enc.read_buffer, StepSize + 1, Len(enc.read_buffer))
                            \o SubSeq(files.unencoded, enc.pos + 1, enc'.pos)]_vars
    /\ []((pc \in {"encoded", "decode", "done"} /\ enc # Idle)
            => /\ enc.read_buffer = <<>>
               /\ enc.pos = Len(files.unencoded)
               /\ enc.lookback_buffer = LastBytes(files.unencoded, MAX_LOOKBACK_BUFFER_LEN))

\* encode() is in its loop with a full lookback buffer that bytes of the
\* input have left, and with bytes still in the read buffer
C28_LookbackTrimmed ==
    /\ pc = "encode_loop"
    /\ Len(enc.lookback_buffer) = MAX_LOOKBACK_BUFFER_LEN
    /\ Consumed > MAX_LOOKBACK_BUFFER_LEN
    /\ enc.read_buffer # <<>>
    /\ enc.lookback_buffer # SubSeq(files.unencoded, 1, MAX_LOOKBACK_BUFFER_LEN)


\* The number of input bytes encode() has not yet passed to the lookback
\* buffer
Remaining == Len(files.unencoded) - Consumed

\* C29: encode()'s loop ends: each turn takes the bytes of its value,
\* one for a literal and at least MIN_MATCH_SIZE for a match, off the
\* bytes that remain, which are never fewer than none, so the loop takes
\* no more turns than the input has bytes; the loop takes a turn as long
\* as the read buffer is not empty, which is as long as bytes remain, and
\* is left when it is, with all of the input read; finalise is then
\* called, once, and the stream is not written to again
C29_LoopTerminates ==
    /\ [][EncodeTurn
            => /\ pc' = "encode_loop"
               /\ StepSize >= 1
               /\ FoundValue[1] = "OffsetLen" => StepSize >= MIN_MATCH_SIZE
               /\ StepSize <= Remaining
               /\ Remaining' = Remaining - StepSize
               /\ trace'.values = Append(trace.values, FoundValue)]_vars
    /\ [][(pc = "encode_loop" /\ enc.read_buffer = <<>>)
            => /\ pc' = "encoded"
               /\ Remaining = 0
               /\ enc.pos = Len(files.unencoded)
               /\ enc' = enc
               /\ trace'.values = trace.values
               /\ os'.buf = <<>>]_vars
    /\ [][(pc \in {"encoded", "decode", "done", "panicked"})
            => (os' = os /\ enc' = enc /\ trace' = trace /\ pc' # "encode_loop")]_vars
    /\ [](pc = "encode_loop"
            => /\ Remaining >= 0
               /\ Len(trace.values) + Remaining <= Len(files.unencoded)
               /\ (Remaining = 0) = (enc.read_buffer = <<>>))

\* encode() has left its loop on the input of 195 bytes after turns for
\* literals and for matches, fewer turns than the input has bytes
C29_LongInputEncoded ==
    /\ pc = "encoded"
    /\ Len(files.unencoded) = MAX_LOOKBACK_BUFFER_LEN + MAX_READ_BUFFER_LEN + MaxShort
    /\ Remaining = 0
    /\ Len(trace.values) < Len(files.unencoded)
    /\ \E k \in DOMAIN trace.values : trace.values[k][1] = "OffsetLen"
    /\ \E k \in DOMAIN trace.values : trace.values[k][1] = "RawU8"


\* One value replayed on a window kept apart from encode()'s buffers: a
\* literal appends its byte, a match the len bytes of the window from
\* offset on (defined only when they are all in the window); the window
\* is then cut at its head to MAX_LOOKBACK_BUFFER_LEN bytes, the bytes
\* cut off being kept in output
ReplayValue(st, value) ==
    LET offset == IF value[1] = "OffsetLen" THEN U64ToNat(value[2].offset) ELSE 0
        len == IF value[1] = "OffsetLen" THEN U64ToNat(value[2].len) ELSE 1
        within == value[1] = "RawU8" \/ offset + len <= Len(st.window)
        grown == IF value[1] = "RawU8" THEN Append(st.window, value[2])
                 ELSE IF within THEN st.window \o SubSeq(st.window, offset + 1, offset + len)
                 ELSE st.window
        n == IF Len(grown) > MAX_LOOKBACK_BUFFER_LEN
             THEN Len(grown) - MAX_LOOKBACK_BUFFER_LEN ELSE 0
    IN [window |-> SubSeq(grown, n + 1, Len(grown)),
        output |-> st.output \o SubSeq(grown, 1, n),
        len |-> st.len + len,
        defined |-> st.defined /\ within]

\* The values replayed in order from the empty window
Replayed(values) ==
    LET Step(st, i) == ReplayValue(st, values[i])
    IN FoldRange(Step, [window |-> <<>>, output |-> <<>>, len |-> 0, defined |-> TRUE],
                 1, Len(values))

\* C30: the values encode() has passed to OutputStream::add, replayed on
\* a window of their own, give the bytes of the input that have left the
\* read buffer, the window being encode()'s lookback buffer, and their
\* lengths add up to the number of those bytes; after the loop they give
\* the whole input
C30_ReplayGivesInput ==
    /\ (pc = "encode_loop" /\ enc # Idle)
         => LET r == Replayed(trace.values)
            IN /\ r.defined
               /\ r.output \o r.window = SubSeq(files.unencoded, 1, Consumed)
               /\ r.window = enc.lookback_buffer
               /\ r.len = Consumed
    /\ (pc = "encoded")
         => LET r == Replayed(trace.values)
            IN /\ r.defined
               /\ r.output \o r.window = files.unencoded
               /\ r.len = Len(files.unencoded)

\* encode() has left its loop on the input of 195 bytes; the replay of
\* its values has copied matches and has cut bytes off the window
C30_LongInputReplayed ==
    /\ pc = "encoded"
    /\ Len(files.unencoded) = MAX_LOOKBACK_BUFFER_LEN + MAX_READ_BUFFER_LEN + MaxShort
    /\ \E k \in DOMAIN trace.values : trace.values[k][1] = "OffsetLen"
    /\ Len(Replayed(trace.values).output) = MAX_READ_BUFFER_LEN + MaxShort
    /\ Len(Replayed(trace.values).window) = MAX_LOOKBACK_BUFFER_LEN


\* The table that maps each byte of data to the number of times it is in
\* data, with no entry for another byte
Occurrences(data) ==
    [b \in {data[i] : i \in DOMAIN data} |-> Cardinality({i \in DOMAIN data : data[i] = b})]

\* C31: when populate_byte_stats has returned, byte_stats maps each byte
\* of the input to the number of times it is in the input and has no
\* entry for a byte that is not in the input
C31_ExactOccurrences ==
    pc = "create_output_stream" => enc.byte_stats = Occurrences(files.unencoded)

\* populate_byte_stats has returned on an input of one byte with a table
\* that counts the nine bytes of the buffer the read has not written
C31_StaleBufferCounted ==
    /\ pc = "create_output_stream"
    /\ Len(files.unencoded) = 1
    /\ 0 \notin {files.unencoded[i] : i \in DOMAIN files.unencoded}
    /\ 0 \in DOMAIN enc.byte_stats
    /\ enc.byte_stats[0] = 9
    /\ enc.byte_stats[files.unencoded[1]] = 1


\* The bytes that occur in the input
InputBytes == {files.unencoded[i] : i \in DOMAIN files.unencoded}

\* C32: the table populate_byte_stats has built has an entry for every
\* byte of the input, and so has the code map made from it; every byte
\* the stream buffers and every byte of a run it hands to pack_to_u8 has
\* a code, and pack_to_u8's unwrap of a missing code never panics
C32_LiteralsHaveCodes ==
    /\ pc = "create_output_stream" => InputBytes \subseteq DOMAIN enc.byte_stats
    /\ (pc \in {"init_read_buffer", "encode_loop", "encoded"})
         => /\ DOMAIN os.code_map.codes = DOMAIN enc.byte_stats
            /\ InputBytes \subseteq DOMAIN os.code_map.codes
            /\ \A i \in DOMAIN os.buf : os.buf[i] \in DOMAIN os.code_map.codes
            /\ \A k \in DOMAIN trace.runs : \A i \in DOMAIN trace.runs[k].buf :
                  trace.runs[k].buf[i] \in DOMAIN os.code_map.codes
    /\ panic # "huffman.rs:137"

\* encode() has packed the literals of an input of MaxShort bytes with a
\* code map that has a code for each of them, and one for byte 0 besides
C32_ShortInputPacked ==
    /\ pc = "encoded"
    /\ Len(files.unencoded) = MaxShort
    /\ Len(trace.runs) = 1
    /\ trace.runs[1].buf = files.unencoded
    /\ Cardinality(InputBytes) = 2
    /\ DOMAIN os.code_map.codes = InputBytes \cup {0}


\* The vertices of the tree under node: the nodes that have a child
RECURSIVE VerticesOf(_)
VerticesOf(node) ==
    IF ~IsSome(node.left) /\ ~IsSome(node.right) THEN <<>>
    ELSE <<node>>
         \o (IF IsSome(node.left) THEN VerticesOf(Unwrap(node.left)) ELSE <<>>)
         \o (IF IsSome(node.right) THEN VerticesOf(Unwrap(node.right)) ELSE <<>>)

\* The count build_tree's queue holds for node under the table stats: of
\* a leaf its entry, of the end node nothing, of a vertex the counts of
\* its two nodes together
RECURSIVE CountOf(_, _)
CountOf(stats, node) ==
    IF IsSome(node.value) THEN stats[Unwrap(node.value)]
    ELSE IF node.is_end_node THEN 0
    ELSE (IF IsSome(node.left) THEN CountOf(stats, Unwrap(node.left)) ELSE 0)
         + (IF IsSome(node.right) THEN CountOf(stats, Unwrap(node.right)) ELSE 0)

\* The vertex build_tree makes first: a leaf to the left, the end node to
\* the right
EndVertices(root) ==
    {i \in DOMAIN VerticesOf(root) : VerticesOf(root)[i].right = Some(new_end)}

\* C33: in the tree build_tree returns the end node is the right child of
\* one vertex, whose left child is a leaf of the lowest count of the
\* table, and is not the root, so that its code has a bit at least; the
\* vertex counts as that leaf alone, and the other vertices are those of
\* merges of the two lowest counts: of two of them, both nodes of one
\* count no more than both nodes of the other
C33_EndPairedWithLowest ==
    pc = "build_tree_done" =>
        LET root == Unwrap(Unwrap(fn.ret).root_node)
            vertices == VerticesOf(root)
            merged == (DOMAIN vertices) \ EndVertices(root)
            low(i) == Min(CountOf(fn.arg, Unwrap(vertices[i].left)),
                          CountOf(fn.arg, Unwrap(vertices[i].right)))
            high(i) == CountOf(fn.arg, vertices[i]) - low(i)
        IN /\ Cardinality(EndVertices(root)) = 1
           /\ \A i \in EndVertices(root) :
                 /\ IsSome(vertices[i].left)
                 /\ IsSome(Unwrap(vertices[i].left).value)
                 /\ \A b \in DOMAIN fn.arg :
                       fn.arg[Unwrap(Unwrap(vertices[i].left).value)] <= fn.arg[b]
                 /\ CountOf(fn.arg, vertices[i])
                       = fn.arg[Unwrap(Unwrap(vertices[i].left).value)]
           /\ ~root.is_end_node
           /\ Unwrap(tree_to_code_map(Unwrap(fn.ret)).end_code).bit_size >= 1
           /\ \A i \in DOMAIN vertices : IsSome(vertices[i].left) /\ IsSome(vertices[i].right)
           /\ Len(vertices) = Cardinality(DOMAIN fn.arg)
           /\ \A i \in merged : \A j \in merged :
                 i # j => (high(i) <= low(j) \/ high(j) <= low(i))

\* build_tree has returned for a table of three bytes, one of them of the
\* lowest count alone: the end node is paired with that one, three
\* vertices below the root
C33_EndBelowTwoMerges ==
    /\ pc = "build_tree_done"
    /\ DOMAIN fn.arg = TableBytes
    /\ fn.arg[65] = 1
    /\ fn.arg[0] = MaxCount
    /\ fn.arg[255] = MaxCount
    /\ Unwrap(tree_to_code_map(Unwrap(fn.ret)).end_code).bit_size = 3
    /\ tree_to_code_map(Unwrap(fn.ret)).codes[65].bit_size = 3


\* One node visited on the way through a tree: st is [nodes, leaves],
\* nodes the nodes still to visit, each <<path, node>>, and leaves the
\* <<is_end, byte, path>> of the leaves met so far; a step to the left
\* child adds a 0 to the path and a step to the right child a 1
PathStep(st, i) ==
    IF st.nodes = <<>> THEN st
    ELSE LET path == Head(st.nodes)[1]
             node == Head(st.nodes)[2]
         IN IF ~IsSome(node.left) /\ ~IsSome(node.right)
            THEN [nodes |-> Tail(st.nodes),
                  leaves |-> Append(st.leaves,
                                    <<node.is_end_node,
                                      IF IsSome(node.value) THEN Unwrap(node.value) ELSE 0,
                                      path>>)]
            ELSE [nodes |-> (IF IsSome(node.left)
                             THEN << <<Append(path, 0), Unwrap(node.left)>> >> ELSE <<>>)
                            \o (IF IsSome(node.right)
                                THEN << <<Append(path, 1), Unwrap(node.right)>> >> ELSE <<>>)
                            \o Tail(st.nodes),
                  leaves |-> st.leaves]

\* The leaves of the tree under node with their paths from node, from
\* left to right
PathsOf(node) ==
    FoldRange(PathStep, [nodes |-> << <<(<<>>), node>> >>, leaves |-> <<>>], 1, MaxTreeNodes).leaves

\* The code tree_to_code_map has given to the leaf of a path
CodeOfLeaf(code_map, leaf) ==
    IF leaf[1] THEN Unwrap(code_map.end_code) ELSE code_map.codes[leaf[2]]

\* unpack_bytes' walk from the root along the bits of path
WalkOf(root_node, path) ==
    LET Step(st, i) == UnpackStep(root_node, st, path[i] = 1)
    IN FoldRange(Step,
                 [current_node |-> root_node, output |-> <<>>, stopped |-> FALSE, panic |-> FALSE],
                 1, Len(path))

\* C34: tree_to_code_map gives the end node and each leaf a code of as
\* many bits as the leaf is below the root, the bits of its path from
\* the root (0 to the left, 1 to the right) and no bit set above them;
\* no two codes are the same and none starts with another; unpack_bytes'
\* walk along the bits of a path ends in the leaf of that path
C34_CodesArePaths ==
    pc = "code_map_done" =>
        LET root == Unwrap(fn.arg.root_node)
            leaves == PathsOf(root)
            code(i) == CodeOfLeaf(Unwrap(fn.ret), leaves[i])
        IN /\ \A i \in DOMAIN leaves :
                 /\ code(i).bit_size = Len(leaves[i][3])
                 /\ code(i).bit_size <= 64
                 /\ CodeBitsOf(code(i)) = leaves[i][3]
                 /\ \A k \in 1..(64 - code(i).bit_size) : code(i).set_bits[k] = 0
           /\ \A i \in DOMAIN leaves : \A j \in DOMAIN leaves :
                 i # j => ~IsPrefix(leaves[i][3], leaves[j][3])
           /\ \A i \in DOMAIN leaves :
                 LET w == WalkOf(root, leaves[i][3])
                 IN /\ ~w.panic
                    /\ IF leaves[i][1] THEN w.stopped /\ w.output = <<>>
                       ELSE ~w.stopped /\ w.output = <<leaves[i][2]>> /\ w.current_node = root

\* No leaf of the tree, nor its end node, is more than 64 steps below the
\* root
SixtyFourDeep ==
    \A i \in DOMAIN PathsOf(Unwrap(fn.arg.root_node)) :
        Len(PathsOf(Unwrap(fn.arg.root_node))[i][3]) <= 64

\* What holds instead: the codes are the paths for every tree that is no
\* more than 64 deep
CodesArePathsUpToSixtyFour == SixtyFourDeep => C34_CodesArePaths

\* tree_to_code_map has returned for the tree with the end node 65
\* vertices below the root: its code has 65 bits, and so has that of the
\* leaf beside it, whose 64 bits kept are those of the leaf above it
C34_PathBeyondSixtyFourBits ==
    /\ pc = "code_map_done"
    /\ fn.arg = DeepTree(65)
    /\ Unwrap(Unwrap(fn.ret).end_code).bit_size = 65
    /\ Unwrap(Unwrap(fn.ret).end_code).set_bits = Tup([i \in 1..64 |-> 1])
    /\ Unwrap(fn.ret).codes[1].bit_size = 65
    /\ Unwrap(fn.ret).codes[2].bit_size = 64
    /\ Unwrap(fn.ret).codes[1].set_bits = Unwrap(fn.ret).codes[2].set_bits


\* The bits of the codes of the literals of run, in order
CodesOf(code_map, run) ==
    Flatten([i \in 1..Len(run) |-> CodeBitsOf(code_map.codes[run[i]])])

\* C35: the bits of the bytes pack_to_u8 returns, the first bit of each
\* byte first, start with the bits of the codes of the literals in the
\* order of the input, for codes that have no bit set above bit_size;
\* the accumulator after the loop holds, before the bits left, those
\* that have not been put out
C35_CodesInOrder ==
    pc = "pack_done" =>
        LET codes == CodesOf(fn.arg.code_map, fn.arg.input)
            st == Unwrap(fn.mid)
        IN /\ IsPrefix(codes, BitStream(Unwrap(fn.ret)))
           /\ IsPrefix(st.output, Unwrap(fn.ret))
           /\ BitStream(st.output) \o SubSeq(st.working_bytes, 1, 64 - st.bits_left) = codes
           /\ st.bits_left \in 1..64

\* pack_to_u8 has returned the bytes of the test pack_to_u8_big: the
\* eleventh code ends on the 63rd bit and the twelfth is split
C35_BigTestPacked ==
    /\ pc = "pack_done"
    /\ fn.arg.code_map = BigCodeMap
    /\ fn.arg.input = BigInput
    /\ Unwrap(fn.ret) = <<185, 247, 219, 171, 171, 171, 171, 147, 239, 248>>
    /\ Len(Unwrap(fn.mid).output) = 8


\* bits in bytes, the first bit first, with zero bits up to a whole byte
BytesOfBits(bits) ==
    [k \in 1..((Len(bits) + 7) \div 8) |->
        ByteOfBits([j \in 1..8 |-> IF 8 * (k - 1) + j <= Len(bits)
                                   THEN bits[8 * (k - 1) + j] ELSE 0])]

\* C36: after the loop pack_to_u8 puts the end code behind the bits of
\* the accumulator when it has no more bits than are left there, and
\* not otherwise; it then puts out the bytes of the accumulator that
\* hold these bits, the bits not used being zero, and no other byte
C36_EndCodeAndRemainder ==
    pc = "pack_done" =>
        LET st == Unwrap(fn.mid)
            end_code == Unwrap(fn.arg.code_map.end_code)
            used == SubSeq(st.working_bytes, 1, 64 - st.bits_left)
            bits == IF end_code.bit_size <= st.bits_left
                    THEN used \o CodeBitsOf(end_code) ELSE used
        IN /\ Unwrap(fn.ret) = st.output \o BytesOfBits(bits)
           /\ Len(Unwrap(fn.ret)) = Len(st.output) + (Len(bits) + 7) \div 8
           /\ Len(bits) <= 64

\* pack_to_u8 has returned for ten codes of six bits and an end code of
\* eight: the four bits left do not take the end code, and the output
\* is the eight bytes of the codes
C36_EndCodeLeftOut ==
    /\ pc = "pack_done"
    /\ fn.arg.code_map = BigCodeMap
    /\ fn.arg.input = Repeat(<<4>>, 10)
    /\ Unwrap(fn.mid).bits_left = 4
    /\ Unwrap(fn.mid).output = <<>>
    /\ Len(Unwrap(fn.ret)) = 8
    /\ Unwrap(fn.ret)[8] = 208


\* The bits of bytes, those of each byte from the bit of 128 down to the
\* bit of 1
HighBitsFirst(bytes) ==
    [i \in 1..(8 * Len(bytes)) |->
        (bytes[((i - 1) \div 8) + 1] \div (2 ^ (7 - ((i - 1) % 8)))) % 2]

\* One bit of a reading of bits by the paths of a tree: st is
\* [from, output, ended], from the bit the code being read starts at; the
\* bits from there to bit i are looked up among leaves, a literal is put
\* out and the end node ends the reading
ReadBit(leaves, bits, st, i) ==
    IF st.ended THEN st
    ELSE LET read == SubSeq(bits, st.from, i)
             found == {k \in DOMAIN leaves : leaves[k][3] = read}
         IN IF found = {} THEN st
            ELSE LET leaf == leaves[CHOOSE k \in found : TRUE]
                 IN IF leaf[1] THEN [st EXCEPT !.ended = TRUE]
                    ELSE [st EXCEPT !.from = i + 1, !.output = Append(st.output, leaf[2])]

\* The literals of the codes bits starts with, up to the end code or to
\* the last code that is whole
ReadCodes(tree, bits) ==
    LET leaves == PathsOf(Unwrap(tree.root_node))
        Step(st, i) == ReadBit(leaves, bits, st, i)
    IN FoldRange(Step, [from |-> 1, output |-> <<>>, ended |-> FALSE], 1, Len(bits))

\* C37: unpack_bytes reads the bits of each byte from the highest down;
\* it puts out the literals of the codes it reads up to the end code,
\* where it stops, and nothing for the bits behind it; when the bits run
\* out first it returns the literals of the whole codes, without a
\* panic, and nothing for a code that is not whole
C37_UnpackUpToEnd ==
    pc = "unpack_done" =>
        LET read == ReadCodes(fn.arg.tree, HighBitsFirst(fn.arg.input_bytes))
        IN /\ ~Unwrap(fn.ret).panic
           /\ Unwrap(fn.ret).output = read.output
           /\ Unwrap(fn.ret).stopped = read.ended
           /\ unpack_bytes(fn.arg.input_bytes, fn.arg.tree) = read.output

\* unpack_bytes has stopped at the end code in the third bit of 00100101
\* with the tree of one byte: two literals, and none for the two zero
\* bits among the five behind the end code
C37_StoppedInsideByte ==
    /\ pc = "unpack_done"
    /\ DOMAIN fn.arg.tree = {"root_node"}
    /\ fn.arg.tree.root_node = Some(new_vertex(Some(new_leaf(65)), Some(new_end)))
    /\ fn.arg.input_bytes = <<37>>
    /\ Unwrap(fn.ret).stopped
    /\ Unwrap(fn.ret).output = <<65, 65>>


\* The panic of build_tree on a table with no entry: the unwrap of
\* pop_min on the empty queue
EmptyModel == {"huffman.rs:66"}

\* C38: build_tree returns no tree for the table with no entry; encode()
\* of the empty input comes to create_output_stream with that table and
\* fails there with build_tree's panic: no stream is made, the container
\* stays without a byte, and encode() goes no further
C38_EmptyTableRejected ==
    /\ [](build_tree(EmptyStats) = {})
    /\ []((pc = "create_output_stream" /\ files.unencoded = <<>>)
            => enc.byte_stats = EmptyStats)
    /\ [][(pc = "create_output_stream" /\ enc.byte_stats = EmptyStats)
            => /\ pc' = "panicked"
               /\ panic' \in EmptyModel
               /\ os' = Idle
               /\ trace'.tree = None
               /\ files' = files
               /\ files.encoded = Some(<<>>)]_vars
    /\ []((files.unencoded = <<>> /\ enc # Idle)
            => /\ pc \in {"populate_byte_stats", "create_output_stream", "panicked"}
               /\ files.encoded = Some(<<>>)
               /\ files.decoded = None
               /\ os = Idle)
    /\ [][pc = "panicked" => pc' = "panicked"]_vars

\* encode() of the empty input has failed in build_tree
C38_EmptyInputAborted ==
    /\ pc = "panicked"
    /\ panic = "huffman.rs:66"
    /\ files.unencoded = <<>>
    /\ enc.byte_stats = EmptyStats
    /\ os = Idle
    /\ Unwrap(files.encoded) = <<>>


\* decode() is about to read the last byte of a match record whose
\* offset + len is 2^64 or more
OverflowingMatch ==
    /\ Reading("OffsetLenRead")
    /\ dec.decode_state[2] = 1
    /\ AddOverflows(RecordOffsetLen.offset, RecordOffsetLen.len)

\* C39, as stated: the check of finalise_match has the sum offset + len
\* as it is, which for such a record is more than any window, so the
\* record is out of range for the check (or the sum is not made at all)
C39_TrueSumCompared ==
    [][(OverflowingMatch /\ files' = files)
          => /\ pc' = "panicked"
             /\ panic' \in {"decode.rs:177", "offset_len.rs:134"}]_vars

\* What holds of such a record in both builds: it is never copied from
\* the window.  With overflow checks the sum panics;
\* without them the sum is taken modulo 2^64 and the check of
\* finalise_match compares that with the window: when it is more than the
\* window the check refuses the record, and when it is not the check lets
\* it pass and VecDeque::range refuses a range that ends before its
\* start.  decode() fails, the window is as it was, no output is written
C39_WrappedSumNeverCopied ==
    [][(OverflowingMatch /\ files' = files)
          => /\ pc' = "panicked"
             /\ panic' = IF overflow_checks THEN "offset_len.rs:134"
                         ELSE IF U64Less(U64FromNat(Len(dec.read_buffer)),
                                         WrappingAdd(RecordOffsetLen.offset, RecordOffsetLen.len))
                         THEN "decode.rs:177"
                         ELSE "decode.rs:184"
             /\ U64Less(WrappingAdd(RecordOffsetLen.offset, RecordOffsetLen.len),
                        RecordOffsetLen.offset)
             /\ dec' = dec
             /\ files'.decoded = None]_vars

\* In a build that wraps, the check of finalise_match has let pass a
\* record whose offset + len is 2^64 or more, its sum modulo 2^64 being
\* within the window, and VecDeque::range has refused the range
C39_WrappedSumPassedCheck ==
    /\ pc = "panicked"
    /\ panic = "decode.rs:184"
    /\ ~overflow_checks
    /\ dec.decode_state = <<"OffsetLenRead", 1>>
    /\ AddOverflows(RecordOffsetLen.offset, RecordOffsetLen.len)
    /\ Len(dec.read_buffer) > 0
    /\ U64ToNat(WrappingAdd(RecordOffsetLen.offset, RecordOffsetLen.len)) <= Len(dec.read_buffer)


\* The value of the call of add that is next in the script, none when the
\* next call is finalise
NextValue == IF Len(trace.values) < Len(script) THEN <<script[Len(trace.values) + 1]>> ELSE <<>>

\* The next call, add of a match or finalise, flushes the buffer
CallFlushes == NextValue = <<>> \/ NextValue[1][1] = "OffsetLen"

\* The chunk records of a sequence of bytes, read one marker after the
\* other as decode() reads them, are of 1 to ChunkMarker::MAX_VALUE
\* payload bytes each
ChunkLengthsInRange(bytes) ==
    /\ ChunkPayloads(bytes, 1).ok
    /\ \A k \in DOMAIN ChunkPayloads(bytes, 1).payloads :
          Len(ChunkPayloads(bytes, 1).payloads[k]) \in 1..ChunkMarker_MAX_VALUE
    /\ \A i \in DOMAIN bytes :
          (i = 1 \/ \E k \in DOMAIN ChunkPayloads(bytes, 1).payloads :
                       i = 1 + k + Len(Flatten(SubSeq(ChunkPayloads(bytes, 1).payloads, 1, k))))
              => bytes[i] # ChunkMarker_to_u8(0)

\* C40: every chunk record a call of add or finalise writes has a payload
\* of 1 to 63 bytes.  A call on a non-empty buffer that flushes it packs
\* the buffer to one byte at least and writes one chunk record at least,
\* none under a marker of length 0, and after them only the match record
\* of the call; a call that buffers a literal, and one on an empty
\* buffer, writes no chunk record at all
C40_ChunkLengths ==
    [][(pc = "stream_add" /\ pc' # "panicked")
          => LET sink == Unwrap(files.encoded)
                 appended == SubSeq(Unwrap(files'.encoded), Len(sink) + 1,
                                    Len(Unwrap(files'.encoded)))
                 match == IF NextValue # <<>> /\ NextValue[1][1] = "OffsetLen"
                          THEN to_bytes_new(NextValue[1][2]) ELSE <<>>
                 chunks == SubSeq(appended, 1, Len(appended) - Len(match))
             IN /\ SubSeq(Unwrap(files'.encoded), 1, Len(sink)) = sink
                /\ appended = chunks \o match
                /\ ChunkLengthsInRange(chunks)
                /\ IF CallFlushes /\ os.buf # <<>>
                   THEN /\ Len(pack_to_u8(os.code_map, os.buf)) >= 1
                        /\ Len(ChunkPayloads(chunks, 1).payloads) >= 1
                        /\ Flatten(ChunkPayloads(chunks, 1).payloads)
                               = pack_to_u8(os.code_map, os.buf)
                        /\ os'.buf = <<>>
                   ELSE chunks = <<>>]_vars

\* The mixed script has been written: three runs of literals flushed, each
\* as one chunk record of one payload byte, a match added on an empty
\* buffer with no chunk record before it
C40_ShortRunsFlushed ==
    /\ pc = "encoded"
    /\ script = MixedScript
    /\ Len(trace.runs) = 3
    /\ Len(trace.matches) = 3
    /\ \A k \in DOMAIN trace.runs :
          /\ Len(trace.runs[k].written) = 2
          /\ trace.runs[k].written[1] = ChunkMarker_to_u8(1)
    /\ trace.matches[3].at = trace.matches[2].at
                               + Len(to_bytes_new(OffsetLenNew(U64FromNat(1), U64FromNat(2))))

\* A run that packs to ChunkMarker::MAX_VALUE bytes exactly has been
\* flushed as one chunk record
C40_FullChunkFlushed ==
    /\ pc = "encoded"
    /\ \E k \in DOMAIN trace.runs :
          /\ Len(pack_to_u8(os.code_map, trace.runs[k].buf)) = ChunkMarker_MAX_VALUE
          /\ Len(trace.runs[k].written) = ChunkMarker_MAX_VALUE + 1

=============================================================================
